---- MODULE Spec2Model ----
(***************************************************************************)
(* The Pythagorean numerology engine of hieutrtr/numerologist:             *)
(*   libs/numerology/src/vietnamese_mappings.py  (letter classifier)       *)
(*   libs/numerology/src/calculator.py           (reducer and calculators) *)
(* and the services of apps/api/src/services that use it or stand beside   *)
(* it: numerology_service.py, pipecat_bot_service.py and                   *)
(* conversation_service.py, each with a specification of its own.          *)
(*                                                                         *)
(* A character is its Unicode code point, a string a sequence of code      *)
(* points.  A call of one of the library's functions is an action that     *)
(* binds the arguments and computes the pre-reduction total; the while     *)
(* loop of _reduce_to_single_digit then runs one iteration per step.       *)
(***************************************************************************)
EXTENDS Integers, Sequences, FiniteSets, TLC

VARIABLES
    fn,      \* the function being executed, "none" between calls
    arg,     \* its arguments: [num, name, month, day, year, text, category,
             \* language, today]
    pc,      \* "idle" | "loop" (inside the while loop of the reducer) | "done"
             \* | "raised"
    n,       \* the local n of _reduce_to_single_digit
    result,  \* the returned number once pc = "done", 0 before
    out,     \* a returned value that is not a number: [kind, ...]
    error,   \* the exception raised once pc = "raised", "none" otherwise
    \* PipecatBotService (apps/api/src/services/pipecat_bot_service.py)
    _pipelines,   \* the class attribute _pipelines: conversation_id -> task
    _transports,  \* the class attribute _transports: conversation_id -> transport
    created,      \* number of PipelineTask objects constructed so far
    botCalls,     \* the coroutines calling the service, each with its position
    \* ConversationService (apps/api/src/services/conversation_service.py)
    \* behind the routes of apps/api/src/routes/conversations.py
    rooms,               \* the rooms that exist at Daily.co
    roomsCreated,        \* number of rooms created so far
    conversations,       \* the committed rows of the table conversations:
                         \* conversation id -> numbers_calculated["messages"]
    redis,               \* the keys set in Redis
    message_semaphores,  \* per request, the dict of its ConversationService:
                         \* conversation id -> value of the semaphore
    createCall,          \* the request POST /conversations, with its position
    saveCalls,           \* the requests POST /{id}/messages/..., each with
                         \* its position and its database session
    saved,               \* number of message requests started so far
    succeeded,           \* the messages whose request was answered 200
    \* NumerologyService.create_profile / get_profile
    \* (apps/api/src/services/numerology_service.py)
    numerology_profiles, \* the committed rows of the table numerology_profiles
    inserted,            \* number of rows inserted so far
    profileCalls         \* the requests, each with its position and session

libVars == <<fn, arg, pc, n, result, out, error>>
botVars == <<_pipelines, _transports, created, botCalls>>
convVars == <<rooms, roomsCreated, conversations, redis, message_semaphores,
              createCall, saveCalls, saved, succeeded>>
profileVars == <<numerology_profiles, inserted, profileCalls>>
serviceVars == <<botVars, convVars, profileVars>>
vars == <<libVars, serviceVars>>

(***************************************************************************)
(* Bounds of the model.                                                    *)
(***************************************************************************)
\* _reduce_to_single_digit is called directly on -MaxN..MaxN
MaxN == 3000
\* names are all strings over NameChars of at most this length, plus KnownNames
MaxNameLen == 3
\* the last calendar year of birth dates and target years
MaxYear == 2026

(***************************************************************************)
(* Python's str and unicodedata on the characters of the model.            *)
(* Rows are <<c, c.upper(), c.lower(), normalize('NFD', c), c.isalpha()>>  *)
(* for the non-ASCII characters: the Vietnamese vowels with their tone     *)
(* marks in both cases, D WITH STROKE, SHARP S, DOTLESS I and the          *)
(* combining marks the decompositions produce.                             *)
(***************************************************************************)
UnicodeRows == {
    <<192, <<192>>, <<224>>, <<65, 768>>, TRUE>>,
    <<193, <<193>>, <<225>>, <<65, 769>>, TRUE>>,
    <<194, <<194>>, <<226>>, <<65, 770>>, TRUE>>,
    <<195, <<195>>, <<227>>, <<65, 771>>, TRUE>>,
    <<200, <<200>>, <<232>>, <<69, 768>>, TRUE>>,
    <<201, <<201>>, <<233>>, <<69, 769>>, TRUE>>,
    <<202, <<202>>, <<234>>, <<69, 770>>, TRUE>>,
    <<204, <<204>>, <<236>>, <<73, 768>>, TRUE>>,
    <<205, <<205>>, <<237>>, <<73, 769>>, TRUE>>,
    <<210, <<210>>, <<242>>, <<79, 768>>, TRUE>>,
    <<211, <<211>>, <<243>>, <<79, 769>>, TRUE>>,
    <<212, <<212>>, <<244>>, <<79, 770>>, TRUE>>,
    <<213, <<213>>, <<245>>, <<79, 771>>, TRUE>>,
    <<217, <<217>>, <<249>>, <<85, 768>>, TRUE>>,
    <<218, <<218>>, <<250>>, <<85, 769>>, TRUE>>,
    <<221, <<221>>, <<253>>, <<89, 769>>, TRUE>>,
    <<223, <<83, 83>>, <<223>>, <<223>>, TRUE>>,
    <<224, <<192>>, <<224>>, <<97, 768>>, TRUE>>,
    <<225, <<193>>, <<225>>, <<97, 769>>, TRUE>>,
    <<226, <<194>>, <<226>>, <<97, 770>>, TRUE>>,
    <<227, <<195>>, <<227>>, <<97, 771>>, TRUE>>,
    <<232, <<200>>, <<232>>, <<101, 768>>, TRUE>>,
    <<233, <<201>>, <<233>>, <<101, 769>>, TRUE>>,
    <<234, <<202>>, <<234>>, <<101, 770>>, TRUE>>,
    <<236, <<204>>, <<236>>, <<105, 768>>, TRUE>>,
    <<237, <<205>>, <<237>>, <<105, 769>>, TRUE>>,
    <<242, <<210>>, <<242>>, <<111, 768>>, TRUE>>,
    <<243, <<211>>, <<243>>, <<111, 769>>, TRUE>>,
    <<244, <<212>>, <<244>>, <<111, 770>>, TRUE>>,
    <<245, <<213>>, <<245>>, <<111, 771>>, TRUE>>,
    <<249, <<217>>, <<249>>, <<117, 768>>, TRUE>>,
    <<250, <<218>>, <<250>>, <<117, 769>>, TRUE>>,
    <<253, <<221>>, <<253>>, <<121, 769>>, TRUE>>,
    <<258, <<258>>, <<259>>, <<65, 774>>, TRUE>>,
    <<259, <<258>>, <<259>>, <<97, 774>>, TRUE>>,
    <<272, <<272>>, <<273>>, <<272>>, TRUE>>,
    <<273, <<272>>, <<273>>, <<273>>, TRUE>>,
    <<296, <<296>>, <<297>>, <<73, 771>>, TRUE>>,
    <<297, <<296>>, <<297>>, <<105, 771>>, TRUE>>,
    <<305, <<73>>, <<305>>, <<305>>, TRUE>>,
    <<360, <<360>>, <<361>>, <<85, 771>>, TRUE>>,
    <<361, <<360>>, <<361>>, <<117, 771>>, TRUE>>,
    <<416, <<416>>, <<417>>, <<79, 795>>, TRUE>>,
    <<417, <<416>>, <<417>>, <<111, 795>>, TRUE>>,
    <<431, <<431>>, <<432>>, <<85, 795>>, TRUE>>,
    <<432, <<431>>, <<432>>, <<117, 795>>, TRUE>>,
    <<768, <<768>>, <<768>>, <<768>>, FALSE>>,
    <<769, <<769>>, <<769>>, <<769>>, FALSE>>,
    <<770, <<770>>, <<770>>, <<770>>, FALSE>>,
    <<771, <<771>>, <<771>>, <<771>>, FALSE>>,
    <<774, <<774>>, <<774>>, <<774>>, FALSE>>,
    <<777, <<777>>, <<777>>, <<777>>, FALSE>>,
    <<795, <<795>>, <<795>>, <<795>>, FALSE>>,
    <<803, <<803>>, <<803>>, <<803>>, FALSE>>,
    <<7840, <<7840>>, <<7841>>, <<65, 803>>, TRUE>>,
    <<7841, <<7840>>, <<7841>>, <<97, 803>>, TRUE>>,
    <<7842, <<7842>>, <<7843>>, <<65, 777>>, TRUE>>,
    <<7843, <<7842>>, <<7843>>, <<97, 777>>, TRUE>>,
    <<7844, <<7844>>, <<7845>>, <<65, 770, 769>>, TRUE>>,
    <<7845, <<7844>>, <<7845>>, <<97, 770, 769>>, TRUE>>,
    <<7846, <<7846>>, <<7847>>, <<65, 770, 768>>, TRUE>>,
    <<7847, <<7846>>, <<7847>>, <<97, 770, 768>>, TRUE>>,
    <<7848, <<7848>>, <<7849>>, <<65, 770, 777>>, TRUE>>,
    <<7849, <<7848>>, <<7849>>, <<97, 770, 777>>, TRUE>>,
    <<7850, <<7850>>, <<7851>>, <<65, 770, 771>>, TRUE>>,
    <<7851, <<7850>>, <<7851>>, <<97, 770, 771>>, TRUE>>,
    <<7852, <<7852>>, <<7853>>, <<65, 803, 770>>, TRUE>>,
    <<7853, <<7852>>, <<7853>>, <<97, 803, 770>>, TRUE>>,
    <<7854, <<7854>>, <<7855>>, <<65, 774, 769>>, TRUE>>,
    <<7855, <<7854>>, <<7855>>, <<97, 774, 769>>, TRUE>>,
    <<7856, <<7856>>, <<7857>>, <<65, 774, 768>>, TRUE>>,
    <<7857, <<7856>>, <<7857>>, <<97, 774, 768>>, TRUE>>,
    <<7858, <<7858>>, <<7859>>, <<65, 774, 777>>, TRUE>>,
    <<7859, <<7858>>, <<7859>>, <<97, 774, 777>>, TRUE>>,
    <<7860, <<7860>>, <<7861>>, <<65, 774, 771>>, TRUE>>,
    <<7861, <<7860>>, <<7861>>, <<97, 774, 771>>, TRUE>>,
    <<7862, <<7862>>, <<7863>>, <<65, 803, 774>>, TRUE>>,
    <<7863, <<7862>>, <<7863>>, <<97, 803, 774>>, TRUE>>,
    <<7864, <<7864>>, <<7865>>, <<69, 803>>, TRUE>>,
    <<7865, <<7864>>, <<7865>>, <<101, 803>>, TRUE>>,
    <<7866, <<7866>>, <<7867>>, <<69, 777>>, TRUE>>,
    <<7867, <<7866>>, <<7867>>, <<101, 777>>, TRUE>>,
    <<7868, <<7868>>, <<7869>>, <<69, 771>>, TRUE>>,
    <<7869, <<7868>>, <<7869>>, <<101, 771>>, TRUE>>,
    <<7870, <<7870>>, <<7871>>, <<69, 770, 769>>, TRUE>>,
    <<7871, <<7870>>, <<7871>>, <<101, 770, 769>>, TRUE>>,
    <<7872, <<7872>>, <<7873>>, <<69, 770, 768>>, TRUE>>,
    <<7873, <<7872>>, <<7873>>, <<101, 770, 768>>, TRUE>>,
    <<7874, <<7874>>, <<7875>>, <<69, 770, 777>>, TRUE>>,
    <<7875, <<7874>>, <<7875>>, <<101, 770, 777>>, TRUE>>,
    <<7876, <<7876>>, <<7877>>, <<69, 770, 771>>, TRUE>>,
    <<7877, <<7876>>, <<7877>>, <<101, 770, 771>>, TRUE>>,
    <<7878, <<7878>>, <<7879>>, <<69, 803, 770>>, TRUE>>,
    <<7879, <<7878>>, <<7879>>, <<101, 803, 770>>, TRUE>>,
    <<7880, <<7880>>, <<7881>>, <<73, 777>>, TRUE>>,
    <<7881, <<7880>>, <<7881>>, <<105, 777>>, TRUE>>,
    <<7882, <<7882>>, <<7883>>, <<73, 803>>, TRUE>>,
    <<7883, <<7882>>, <<7883>>, <<105, 803>>, TRUE>>,
    <<7884, <<7884>>, <<7885>>, <<79, 803>>, TRUE>>,
    <<7885, <<7884>>, <<7885>>, <<111, 803>>, TRUE>>,
    <<7886, <<7886>>, <<7887>>, <<79, 777>>, TRUE>>,
    <<7887, <<7886>>, <<7887>>, <<111, 777>>, TRUE>>,
    <<7888, <<7888>>, <<7889>>, <<79, 770, 769>>, TRUE>>,
    <<7889, <<7888>>, <<7889>>, <<111, 770, 769>>, TRUE>>,
    <<7890, <<7890>>, <<7891>>, <<79, 770, 768>>, TRUE>>,
    <<7891, <<7890>>, <<7891>>, <<111, 770, 768>>, TRUE>>,
    <<7892, <<7892>>, <<7893>>, <<79, 770, 777>>, TRUE>>,
    <<7893, <<7892>>, <<7893>>, <<111, 770, 777>>, TRUE>>,
    <<7894, <<7894>>, <<7895>>, <<79, 770, 771>>, TRUE>>,
    <<7895, <<7894>>, <<7895>>, <<111, 770, 771>>, TRUE>>,
    <<7896, <<7896>>, <<7897>>, <<79, 803, 770>>, TRUE>>,
    <<7897, <<7896>>, <<7897>>, <<111, 803, 770>>, TRUE>>,
    <<7898, <<7898>>, <<7899>>, <<79, 795, 769>>, TRUE>>,
    <<7899, <<7898>>, <<7899>>, <<111, 795, 769>>, TRUE>>,
    <<7900, <<7900>>, <<7901>>, <<79, 795, 768>>, TRUE>>,
    <<7901, <<7900>>, <<7901>>, <<111, 795, 768>>, TRUE>>,
    <<7902, <<7902>>, <<7903>>, <<79, 795, 777>>, TRUE>>,
    <<7903, <<7902>>, <<7903>>, <<111, 795, 777>>, TRUE>>,
    <<7904, <<7904>>, <<7905>>, <<79, 795, 771>>, TRUE>>,
    <<7905, <<7904>>, <<7905>>, <<111, 795, 771>>, TRUE>>,
    <<7906, <<7906>>, <<7907>>, <<79, 795, 803>>, TRUE>>,
    <<7907, <<7906>>, <<7907>>, <<111, 795, 803>>, TRUE>>,
    <<7908, <<7908>>, <<7909>>, <<85, 803>>, TRUE>>,
    <<7909, <<7908>>, <<7909>>, <<117, 803>>, TRUE>>,
    <<7910, <<7910>>, <<7911>>, <<85, 777>>, TRUE>>,
    <<7911, <<7910>>, <<7911>>, <<117, 777>>, TRUE>>,
    <<7912, <<7912>>, <<7913>>, <<85, 795, 769>>, TRUE>>,
    <<7913, <<7912>>, <<7913>>, <<117, 795, 769>>, TRUE>>,
    <<7914, <<7914>>, <<7915>>, <<85, 795, 768>>, TRUE>>,
    <<7915, <<7914>>, <<7915>>, <<117, 795, 768>>, TRUE>>,
    <<7916, <<7916>>, <<7917>>, <<85, 795, 777>>, TRUE>>,
    <<7917, <<7916>>, <<7917>>, <<117, 795, 777>>, TRUE>>,
    <<7918, <<7918>>, <<7919>>, <<85, 795, 771>>, TRUE>>,
    <<7919, <<7918>>, <<7919>>, <<117, 795, 771>>, TRUE>>,
    <<7920, <<7920>>, <<7921>>, <<85, 795, 803>>, TRUE>>,
    <<7921, <<7920>>, <<7921>>, <<117, 795, 803>>, TRUE>>,
    <<7922, <<7922>>, <<7923>>, <<89, 768>>, TRUE>>,
    <<7923, <<7922>>, <<7923>>, <<121, 768>>, TRUE>>,
    <<7924, <<7924>>, <<7925>>, <<89, 803>>, TRUE>>,
    <<7925, <<7924>>, <<7925>>, <<121, 803>>, TRUE>>,
    <<7926, <<7926>>, <<7927>>, <<89, 777>>, TRUE>>,
    <<7927, <<7926>>, <<7927>>, <<121, 777>>, TRUE>>,
    <<7928, <<7928>>, <<7929>>, <<89, 771>>, TRUE>>,
    <<7929, <<7928>>, <<7929>>, <<121, 771>>, TRUE>>
}

UnicodeRow(c) == CHOOSE r \in UnicodeRows : r[1] = c

NonAscii == {r[1] : r \in UnicodeRows}

\* printable ASCII
Ascii == 32..126

\* every character the model knows
Alphabet == Ascii \cup NonAscii

AsciiUpper == 65..90

AsciiLower == 97..122

\* str.upper() of one character (a string: SHARP S becomes "SS")
CharUpper(c) ==
    IF c \in NonAscii THEN UnicodeRow(c)[2]
    ELSE IF c \in AsciiLower THEN <<c - 32>> ELSE <<c>>

\* str.lower() of one character
CharLower(c) ==
    IF c \in NonAscii THEN UnicodeRow(c)[3]
    ELSE IF c \in AsciiUpper THEN <<c + 32>> ELSE <<c>>

\* unicodedata.normalize('NFD', c) of one character
CharNFD(c) ==
    IF c \in NonAscii THEN UnicodeRow(c)[4] ELSE <<c>>

\* str.isalpha() of one character
isalpha(c) ==
    IF c \in NonAscii THEN UnicodeRow(c)[5]
    ELSE c \in AsciiUpper \cup AsciiLower

RECURSIVE Flatten(_)
\* ''.join of a sequence of strings
Flatten(ss) ==
    IF ss = <<>> THEN <<>> ELSE Head(ss) \o Flatten(Tail(ss))

\* str.upper() of a string
upper(s) == Flatten([i \in 1..Len(s) |-> CharUpper(s[i])])

\* str.lower() of a string
lower(s) == Flatten([i \in 1..Len(s) |-> CharLower(s[i])])

\* normalize_vietnamese: NFD of a string of base characters and marks
normalize_vietnamese(text) == Flatten([i \in 1..Len(text) |-> CharNFD(text[i])])

(***************************************************************************)
(* vietnamese_mappings.py                                                  *)
(***************************************************************************)
\* the values of 'A'..'Z' in the order of the table
LetterValues ==
    <<1, 2, 3, 4, 5, 6, 7, 8, 9,
      1, 2, 3, 4, 5, 6, 7, 8, 9,
      1, 2, 3, 4, 5, 6, 7, 8>>

\* LETTER_TO_NUMBER with the position in the alphabet as the value
LETTER_TO_NUMBER_Positions == [c \in AsciiUpper |-> c - 64]

\* LETTER_TO_NUMBER, keyed by the code point of the capital letter
LETTER_TO_NUMBER == [c \in AsciiUpper |-> LetterValues[c - 64]]

\* VIETNAMESE_VOWELS, the code points of the set's members
VIETNAMESE_VOWELS == {
    97, 101, 105, 111, 117, 224, 225, 226, 227, 232, 233, 234,
    236, 237, 242, 243, 244, 245, 249, 250, 253, 297, 361, 417,
    432, 7841, 7843, 7845, 7847, 7849, 7851, 7853, 7865, 7867, 7869, 7871,
    7873, 7875, 7877, 7879, 7881, 7883, 7885, 7887, 7889, 7891, 7893, 7895,
    7897, 7899, 7901, 7903, 7905, 7907, 7909, 7911, 7913, 7915, 7917, 7919,
    7921, 7923, 7925, 7927, 7929
}

\* get_letter_value giving a digit its own value
get_letter_value_DigitsCount(letter) ==
    IF letter \in 48..57 THEN letter - 48
    ELSE LET normalized == normalize_vietnamese(upper(<<letter>>))
         IN  IF normalized # <<>> /\ normalized[1] \in DOMAIN LETTER_TO_NUMBER
             THEN LETTER_TO_NUMBER[normalized[1]]
             ELSE 0

\* get_letter_value of a one-character string
get_letter_value(letter) ==
    LET normalized == normalize_vietnamese(upper(<<letter>>))
        letter_upper == upper(<<letter>>)
    IN  IF normalized # <<>> /\ normalized[1] \in DOMAIN LETTER_TO_NUMBER
        THEN LETTER_TO_NUMBER[normalized[1]]
        ELSE IF Len(letter_upper) = 1 /\ letter_upper[1] \in DOMAIN LETTER_TO_NUMBER
        THEN LETTER_TO_NUMBER[letter_upper[1]]
        ELSE 0

\* is_vowel looking up the lowercase letter itself, not its NFD base
is_vowel_NoNormalize(letter) ==
    LET lowered == lower(<<letter>>)
    IN  IF lowered = <<>> THEN FALSE ELSE lowered[1] \in VIETNAMESE_VOWELS

\* is_vowel of a one-character string
is_vowel(letter) ==
    LET normalized == normalize_vietnamese(lower(<<letter>>))
    IN  IF normalized = <<>> THEN FALSE
        ELSE LET base_char == normalized[1]
             IN  base_char \in VIETNAMESE_VOWELS

\* is_consonant without the test for letters
is_consonant_NotVowel(letter) == ~is_vowel(letter)

\* is_consonant without the test for vowels
is_consonant_AnyLetter(letter) == isalpha(letter)

\* is_consonant of a one-character string
is_consonant(letter) ==
    IF ~isalpha(letter) THEN FALSE ELSE ~is_vowel(letter)

\* extract_vowels filtering with is_consonant
extract_vowels_Swapped(text) == SelectSeq(text, is_consonant)

\* extract_vowels
extract_vowels(text) == SelectSeq(text, is_vowel)

\* extract_consonants
extract_consonants(text) == SelectSeq(text, is_consonant)

(***************************************************************************)
(* calculator.py                                                           *)
(***************************************************************************)
RECURSIVE SumSeq(_)
\* the builtin sum over a sequence of integers
SumSeq(s) == IF s = <<>> THEN 0 ELSE Head(s) + SumSeq(Tail(s))

RECURSIVE Str(_)
\* str(x) of a non-negative integer: its decimal digits, '0' = 48 .. '9' = 57
Str(x) ==
    IF x < 10 THEN <<48 + x>> ELSE Append(Str(x \div 10), 48 + (x % 10))

\* int(digit) of a one-digit string
IntOfDigit(digit) == digit - 48

abs(x) == IF x < 0 THEN -x ELSE x

\* sum(int(digit) for digit in s)
SumDigitChars(s) == SumSeq([i \in 1..Len(s) |-> IntOfDigit(s[i])])

RECURSIVE ZeroPad(_, _)
\* the format spec 0<width>d applied to the digits of a non-negative integer
ZeroPad(s, width) ==
    IF Len(s) >= width THEN s ELSE ZeroPad(<<48>> \o s, width)

\* f"{x:02d}"
Format02d(x) == ZeroPad(Str(x), 2)

\* f"{x:04d}"
Format04d(x) == ZeroPad(Str(x), 4)

\* the Master Numbers tested in the loop of _reduce_to_single_digit
MasterNumbers == {11, 22, 33}

\* LoopStep returning n itself when the loop ends at 0
LoopStep_NoZeroFallback(x) ==
    IF x >= 10
    THEN IF x \in MasterNumbers
         THEN [done |-> TRUE, val |-> x]
         ELSE [done |-> FALSE, val |-> SumDigitChars(Str(x))]
    ELSE [done |-> TRUE, val |-> x]

\* LoopStep without the test for Master Numbers
LoopStep_NoMasterCheck(x) ==
    IF x >= 10
    THEN [done |-> FALSE, val |-> SumDigitChars(Str(x))]
    ELSE [done |-> TRUE, val |-> IF x > 0 THEN x ELSE 9]

\* LoopStep with the loop condition n > 10
LoopStep_OffByOne(x) ==
    IF x > 10
    THEN IF x \in MasterNumbers
         THEN [done |-> TRUE, val |-> x]
         ELSE [done |-> FALSE, val |-> SumDigitChars(Str(x))]
    ELSE [done |-> TRUE, val |-> IF x > 0 THEN x ELSE 9]

\* LoopStep with an if in place of the while: the digits are summed once
LoopStep_SingleSum(x) ==
    IF x >= 10
    THEN IF x \in MasterNumbers
         THEN [done |-> TRUE, val |-> x]
         ELSE [done |-> TRUE, val |-> SumDigitChars(Str(x))]
    ELSE [done |-> TRUE, val |-> IF x > 0 THEN x ELSE 9]

\* one evaluation of the while condition and, if it holds, of the loop body;
\* done = TRUE with the returned value, done = FALSE with the new n
LoopStep(x) ==
    IF x >= 10
    THEN IF x \in MasterNumbers
         THEN [done |-> TRUE, val |-> x]
         ELSE [done |-> FALSE, val |-> SumDigitChars(Str(x))]
    ELSE [done |-> TRUE, val |-> IF x > 0 THEN x ELSE 9]

RECURSIVE ReduceLoop(_)
\* the while loop and the return statement, run to completion
ReduceLoop(x) ==
    LET s == LoopStep(x)
    IN  IF s.done THEN s.val ELSE ReduceLoop(s.val)

\* _reduce_to_single_digit
_reduce_to_single_digit(x) == ReduceLoop(abs(x))

\* _sum_letter_values
_sum_letter_values(text) ==
    LET kept == SelectSeq(text, LAMBDA char : get_letter_value(char) > 0)
    IN  SumSeq([i \in 1..Len(kept) |-> get_letter_value(kept[i])])

\* the total as month + day + year, the numbers and not their digits
LifePathTotal_ComponentSum(birthDate) ==
    birthDate.month + birthDate.day + birthDate.year

\* total of calculateLifePath; birthDate is [year, month, day]
LifePathTotal(birthDate) ==
    SumDigitChars(Format02d(birthDate.month) \o Format02d(birthDate.day)
                  \o Format04d(birthDate.year))

calculateLifePath(birthDate) == _reduce_to_single_digit(LifePathTotal(birthDate))

\* total of calculateDestiny
DestinyTotal(fullName) == _sum_letter_values(fullName)

calculateDestiny(fullName) == _reduce_to_single_digit(DestinyTotal(fullName))

\* total of calculateSoulUrge
SoulUrgeTotal(fullName) ==
    LET vowels == extract_vowels(fullName)
    IN  _sum_letter_values(vowels)

calculateSoulUrge(fullName) == _reduce_to_single_digit(SoulUrgeTotal(fullName))

\* total of calculatePersonality
PersonalityTotal(fullName) ==
    LET consonants == extract_consonants(fullName)
    IN  _sum_letter_values(consonants)

calculatePersonality(fullName) == _reduce_to_single_digit(PersonalityTotal(fullName))

\* total of calculatePersonalYear
PersonalYearTotal(birthMonth, birthDay, currentYear) ==
    SumDigitChars(Format02d(birthMonth) \o Format02d(birthDay)
                  \o Format04d(currentYear))

calculatePersonalYear(birthMonth, birthDay, currentYear) ==
    _reduce_to_single_digit(PersonalYearTotal(birthMonth, birthDay, currentYear))

\* the total of calculatePersonalMonth without the digits of the month
PersonalMonthTotal_NoMonth(birthDay, currentMonth, currentYear) ==
    SumDigitChars(Format02d(birthDay) \o Format04d(currentYear))

\* total of calculatePersonalMonth
PersonalMonthTotal(birthDay, currentMonth, currentYear) ==
    SumDigitChars(Format02d(birthDay) \o Format02d(currentMonth)
                  \o Format04d(currentYear))

calculatePersonalMonth(birthDay, currentMonth, currentYear) ==
    _reduce_to_single_digit(PersonalMonthTotal(birthDay, currentMonth, currentYear))

(***************************************************************************)
(* The inputs of the model.                                                *)
(***************************************************************************)
\* integers passed to _reduce_to_single_digit directly
Numbers == (-MaxN)..MaxN

\* years with one to four digits
Years == {1, 9, 10, 99, 100, 999, 1980, 1985, 1990, 2000, 9999} \cup (2020..MaxYear)

\* the target years of the personal cycles
TargetYears == {2000} \cup (2020..MaxYear)

IsLeap(y) == (y % 4 = 0 /\ y % 100 # 0) \/ y % 400 = 0

DaysInMonth(y, m) ==
    IF m = 2 THEN (IF IsLeap(y) THEN 29 ELSE 28)
    ELSE IF m \in {4, 6, 9, 11} THEN 30 ELSE 31

\* the values of datetime.date over Years
Dates ==
    {d \in [year : Years, month : 1..12, day : 1..31] :
        d.day <= DaysInMonth(d.year, d.month)}

(***************************************************************************)
(* datetime.date: the constructor's range check, isoformat and             *)
(* fromisoformat as CPython 3.11 (the version setup.py requires) computes  *)
(* them on ASCII strings.                                                  *)
(***************************************************************************)
\* the character at a 1-based position, 0 past the end of the string
CharAt(s, pos) == IF pos >= 1 /\ pos <= Len(s) THEN s[pos] ELSE 0

IsDigit(c) == c \in 48..57

RECURSIVE IntOfDigits(_)
\* the number written by a string of decimal digits
IntOfDigits(s) ==
    IF s = <<>> THEN 0
    ELSE 10 * IntOfDigits(SubSeq(s, 1, Len(s) - 1)) + IntOfDigit(s[Len(s)])

\* parse_digits: the value of the k digits from pos on, -1 when one of the
\* k characters is not a digit
ParseDigits(s, pos, k) ==
    IF \A i \in pos..(pos + k - 1) : IsDigit(CharAt(s, i))
    THEN IntOfDigits(SubSeq(s, pos, pos + k - 1))
    ELSE -1

\* the check of date(year, month, day)
IsDate(y, m, d) ==
    /\ y >= 1 /\ y <= 9999
    /\ m >= 1 /\ m <= 12
    /\ d >= 1 /\ d <= DaysInMonth(y, m)

\* days before 1 January of year y
DaysBeforeYear(y) ==
    LET z == y - 1 IN z * 365 + (z \div 4) - (z \div 100) + (z \div 400)

RECURSIVE DaysBeforeMonth(_, _)
\* days of year y before the first of month m
DaysBeforeMonth(y, m) ==
    IF m <= 1 THEN 0 ELSE DaysBeforeMonth(y, m - 1) + DaysInMonth(y, m - 1)

\* ymd_to_ord: 1 January of year 1 is day 1
YmdToOrd(y, m, d) == DaysBeforeYear(y) + DaysBeforeMonth(y, m) + d

\* weekday: Monday is 0
Weekday(y, m, d) == (YmdToOrd(y, m, d) + 6) % 7

\* iso_week1_monday: the ordinal of the Monday that starts ISO week 1
IsoWeek1Monday(y) ==
    LET first_day == YmdToOrd(y, 1, 1)
        first_weekday == (first_day + 6) % 7
        week1_monday == first_day - first_weekday
    IN  IF first_weekday > 3 THEN week1_monday + 7 ELSE week1_monday

NoParse == [ok |-> FALSE, year |-> 0, month |-> 0, day |-> 0]

\* ord_to_ymd, followed by the range check of the constructor
OrdToDate(ordinal, y) ==
    LET found == {d \in [ok : {TRUE}, year : {y - 1, y, y + 1},
                         month : 1..12, day : 1..31] :
                     /\ IsDate(d.year, d.month, d.day)
                     /\ YmdToOrd(d.year, d.month, d.day) = ordinal}
    IN  IF found = {} THEN NoParse ELSE CHOOSE d \in found : TRUE

\* iso_to_ymd
IsoToYmd(iso_year, iso_week, iso_day) ==
    LET first_weekday == Weekday(iso_year, 1, 1)
        long_year == first_weekday = 3 \/ (first_weekday = 2 /\ IsLeap(iso_year))
    IN  IF iso_year < 1 \/ iso_year > 9999 THEN NoParse
        ELSE IF iso_week <= 0 \/ iso_week > 53 \/ (iso_week = 53 /\ ~long_year)
        THEN NoParse
        ELSE IF iso_day <= 0 \/ iso_day >= 8 THEN NoParse
        ELSE OrdToDate(IsoWeek1Monday(iso_year) + (iso_week - 1) * 7 + iso_day - 1,
                       iso_year)

\* parse_isoformat_date on the week forms YYYY[-]Www[[-]D]; pos is the
\* position of the W
ParseIsoWeek(s, year, uses_separator, pos) ==
    LET iso_week == ParseDigits(s, pos + 1, 2)
        more == pos + 2 < Len(s)
        dpos == IF uses_separator THEN pos + 4 ELSE pos + 3
        iso_day == IF more THEN ParseDigits(s, dpos, 1) ELSE 1
    IN  IF iso_week < 0 THEN NoParse
        ELSE IF more /\ uses_separator /\ CharAt(s, pos + 3) # 45 THEN NoParse
        ELSE IF iso_day < 0 THEN NoParse
        ELSE IsoToYmd(year, iso_week, iso_day)

\* date.fromisoformat(date_string): ok is FALSE where it raises ValueError.
\* The parser reads year, month and day from the front of a string of
\* length 7, 8 or 10 and does not look at what follows the day.
fromisoformat(date_string) ==
    LET year == ParseDigits(date_string, 1, 4)
        uses_separator == CharAt(date_string, 5) = 45
        pos == IF uses_separator THEN 6 ELSE 5
        month == ParseDigits(date_string, pos, 2)
        dpos == IF uses_separator THEN pos + 3 ELSE pos + 2
        day == ParseDigits(date_string, dpos, 2)
    IN  IF Len(date_string) \notin {7, 8, 10} THEN NoParse
        ELSE IF year < 0 THEN NoParse
        ELSE IF CharAt(date_string, pos) = 87
        THEN ParseIsoWeek(date_string, year, uses_separator, pos)
        ELSE IF month < 0 THEN NoParse
        ELSE IF uses_separator /\ CharAt(date_string, pos + 2) # 45 THEN NoParse
        ELSE IF day < 0 THEN NoParse
        ELSE IF ~IsDate(year, month, day) THEN NoParse
        ELSE [ok |-> TRUE, year |-> year, month |-> month, day |-> day]

\* date.isoformat(): YYYY-MM-DD
isoformat(d) ==
    Format04d(d.year) \o <<45>> \o Format02d(d.month) \o <<45>> \o Format02d(d.day)

\* the same digits without the hyphens: YYYYMMDD
BasicFormat(d) == Format04d(d.year) \o Format02d(d.month) \o Format02d(d.day)

\* the years written in the date strings of the model
StringYears == {0, 1800, 1899, 1900, 1985, 1990, 2024, 2025, 2026, 2050}

\* year, month and day as a caller may write them, in range or not
WrittenDates == [year : StringYears, month : 0..13, day : 0..32]

\* strings that are no date in year-month-day form
OtherStrings == {
    <<>>,
    <<48, 51, 47, 49, 53, 47, 49, 57, 57, 48>>,
    <<49, 57, 56, 53, 45, 51, 45, 50, 57>>,
    <<49, 57, 56, 53, 45, 48, 51, 45, 50>>,
    <<49, 57, 56, 53, 45, 48, 51, 50, 57>>,
    <<49, 57, 56, 53, 48, 51, 45, 50, 57>>,
    <<49, 57, 56, 53, 45, 48, 51, 45, 50, 57, 84>>,
    <<49, 57, 56, 53, 45, 48, 51, 45, 50, 120>>,
    <<43, 57, 56, 53, 45, 48, 51, 45, 50, 57>>,
    <<105, 110, 118, 97, 108, 105, 100>>,
    <<49, 57, 56, 53, 48, 51, 50>>,
    <<49, 57, 56, 53, 48, 51, 50, 57, 49, 50>>,
    <<49, 57, 56, 53, 48, 51, 50, 57, 65, 66>>,
    <<49, 57, 56, 53, 45, 87, 49, 51, 45, 53>>,
    <<49, 57, 56, 53, 87, 49, 51, 53>>,
    <<49, 57, 56, 53, 45, 87, 49, 51>>,
    <<49, 57, 56, 53, 87, 49, 51>>,
    <<50, 48, 50, 54, 45, 87, 53, 51, 45, 55>>,
    <<50, 48, 50, 53, 45, 87, 53, 51, 45, 49>>,
    <<50, 48, 50, 53, 45, 87, 48, 48, 45, 49>>,
    <<50, 48, 50, 53, 45, 87, 49, 48, 45, 56>>,
    <<50, 48, 50, 53, 45, 87, 49, 48, 120, 49>>
}

\* the strings passed as a birth date
DateStrings ==
    {isoformat(d) : d \in WrittenDates}
        \cup {BasicFormat(d) : d \in {w \in WrittenDates : w.year = 1985}}
        \cup OtherStrings

\* J o a E n Y, e with circumflex and tilde, U with horn, d with stroke,
\* y with acute, sharp s, space, digit one
NameChars == {74, 111, 97, 69, 110, 89, 7877, 431, 273, 253, 223, 32, 49}

JOHN == <<74, 79, 72, 78>>

john == <<106, 111, 104, 110>>

MARIE == <<77, 65, 82, 73, 69>>

BCDFG == <<66, 67, 68, 70, 71>>

AEI == <<65, 69, 73>>

JOHN_SMITH == <<74, 79, 72, 78, 32, 83, 77, 73, 84, 72>>

JOHNSMITH == <<74, 79, 72, 78, 83, 77, 73, 84, 72>>

\* names of the library's tests
KnownNames == {JOHN, john, MARIE, BCDFG, AEI, JOHN_SMITH, JOHNSMITH}

SeqsUpTo(S, k) == UNION {[1..m -> S] : m \in 0..k}

Names == SeqsUpTo(NameChars, MaxNameLen) \cup KnownNames

NoDate == [year |-> 0, month |-> 0, day |-> 0]

NoArg ==
    [num |-> 0, name |-> <<>>, month |-> 0, day |-> 0, year |-> 0,
     isStr |-> FALSE, text |-> <<>>, category |-> "", language |-> "",
     today |-> NoDate]

NoOut == [kind |-> "none"]

(***************************************************************************)
(* interpretations.py and the NumerologyService of the API.                *)
(***************************************************************************)
\* the keys of each inner dict of INTERPRETATIONS
InterpretationValues == {1, 2, 3, 4, 5, 6, 7, 8, 9, 11, 22, 33}

\* the place of a key in its inner dict
KeyIndex(value) ==
    IF value <= 9 THEN value
    ELSE IF value = 11 THEN 10
    ELSE IF value = 22 THEN 11
    ELSE 12

\* an inner dict; a text is kept as the entry it is and its len()
Entries(numberType, lengths) ==
    [value \in InterpretationValues |->
        [numberType |-> numberType, value |-> value,
         len |-> lengths[KeyIndex(value)]]]

INTERPRETATIONS ==
    [life_path |-> Entries("life_path",
        <<147, 138, 129, 112, 110, 126, 118, 117, 114, 146, 159, 132>>),
     destiny |-> Entries("destiny",
        <<131, 126, 135, 126, 114, 104, 113, 125, 116, 126, 129, 112>>),
     soul_urge |-> Entries("soul_urge",
        <<128, 126, 121, 109, 101, 103, 103, 98, 105, 130, 113, 116>>),
     personality |-> Entries("personality",
        <<103, 108, 110, 103, 108, 118, 94, 107, 105, 117, 108, 110>>)]

NoText == [numberType |-> "", value |-> 0, len |-> 0]

Raise(message) == [ok |-> FALSE, text |-> NoText, error |-> message]

\* getInterpretation without the test of the language
getInterpretationFrom_AnyLanguage(table, numberType, value, language) ==
    IF numberType \notin DOMAIN table
    THEN Raise("ValueError: Unknown number type")
    ELSE IF value \notin DOMAIN table[numberType]
    THEN Raise("ValueError: Unknown value")
    ELSE [ok |-> TRUE, text |-> table[numberType][value], error |-> "none"]

\* the body of getInterpretation, reading the dict it is given
getInterpretationFrom(table, numberType, value, language) ==
    IF numberType \notin DOMAIN table
    THEN Raise("ValueError: Unknown number type")
    ELSE IF value \notin DOMAIN table[numberType]
    THEN Raise("ValueError: Unknown value")
    ELSE IF language # "vi"
    THEN Raise("ValueError: Language not supported")
    ELSE [ok |-> TRUE, text |-> table[numberType][value], error |-> "none"]

getInterpretation(numberType, value, language) ==
    getInterpretationFrom(INTERPRETATIONS, numberType, value, language)

\* the largest value looked up
MaxValue == 34

\* number types, values and languages passed to getInterpretation
NumberTypes ==
    {"life_path", "destiny", "soul_urge", "personality", "personal_year", ""}

LookupValues == 0..MaxValue

Languages == {"vi", "en"}

\* a dict display as the set of its (key, value) items: a later item
\* replaces an earlier one with the same key
DictOf(items) ==
    {items[i] : i \in {j \in 1..Len(items) :
                          \A k \in (j + 1)..Len(items) : items[k][1] # items[j][1]}}

\* the interpretations dict with the key prefix of the Life Path used for
\* the Destiny as well
ProfileInterpretations_SharedPrefix(life_path, destiny, soul_urge, personality, texts) ==
    DictOf(<< <<(<<"lifePathNumber", life_path>>), texts[1]>>,
              <<(<<"lifePathNumber", destiny>>), texts[2]>>,
              <<(<<"soulUrgeNumber", soul_urge>>), texts[3]>>,
              <<(<<"personalityNumber", personality>>), texts[4]>> >>)

\* the interpretations dict of calculate_profile; the key f"lifePathNumber_{n}"
\* is the pair of its prefix and n
ProfileInterpretations(life_path, destiny, soul_urge, personality, texts) ==
    DictOf(<< <<(<<"lifePathNumber", life_path>>), texts[1]>>,
              <<(<<"destinyNumber", destiny>>), texts[2]>>,
              <<(<<"soulUrgeNumber", soul_urge>>), texts[3]>>,
              <<(<<"personalityNumber", personality>>), texts[4]>> >>)

\* the four calls of getInterpretation in calculate_profile
ProfileLookups(table, life_path, destiny, soul_urge, personality) ==
    <<getInterpretationFrom(table, "life_path", life_path, "vi"),
      getInterpretationFrom(table, "destiny", destiny, "vi"),
      getInterpretationFrom(table, "soul_urge", soul_urge, "vi"),
      getInterpretationFrom(table, "personality", personality, "vi")>>

\* the end of calculate_profile: the returned dict, or the ValidationError
\* raised by the except clause when a lookup has raised
ProfileResult(life_path, destiny, soul_urge, personality, personal_year, personal_month, lookups) ==
    IF \E i \in 1..4 : ~lookups[i].ok
    THEN [ok |-> FALSE, error_code |-> "CALCULATION_ERROR", profile |-> NoOut]
    ELSE [ok |-> TRUE, error_code |-> "none",
          profile |->
            [kind |-> "profile",
             life_path_number |-> life_path,
             destiny_number |-> destiny,
             soul_urge_number |-> soul_urge,
             personality_number |-> personality,
             current_personal_year |-> personal_year,
             current_personal_month |-> personal_month,
             interpretations |->
                ProfileInterpretations(life_path, destiny, soul_urge,
                    personality, [i \in 1..4 |-> lookups[i].text])]]

\* calculate_profile from the six numbers on
ProfileOfNumbers(table, life_path, destiny, soul_urge, personality, personal_year, personal_month) ==
    ProfileResult(life_path, destiny, soul_urge, personality, personal_year,
        personal_month,
        ProfileLookups(table, life_path, destiny, soul_urge, personality))

\* calculate_profile with getInterpretation reading the given dict
calculate_profile_from(table, full_name, birth_date, today) ==
    ProfileOfNumbers(table,
        calculateLifePath(birth_date),
        calculateDestiny(full_name),
        calculateSoulUrge(full_name),
        calculatePersonality(full_name),
        calculatePersonalYear(birth_date.month, birth_date.day, today.year),
        calculatePersonalMonth(birth_date.day, today.month, today.year))

calculate_profile(full_name, birth_date, today) ==
    calculate_profile_from(INTERPRETATIONS, full_name, birth_date, today)

\* birth_date > today
DateAfter(a, b) ==
    \/ a.year > b.year
    \/ a.year = b.year /\ a.month > b.month
    \/ a.year = b.year /\ a.month = b.month /\ a.day > b.day

\* the first year validate_birth_date accepts
MinBirthYear == 1900

\* validate_birth_date: the date returned, or the code of the ValidationError
validate_birth_date(birth_date_str, today) ==
    LET birth_date == fromisoformat(birth_date_str)
    IN  IF ~birth_date.ok
        THEN [ok |-> FALSE, error_code |-> "INVALID_DATE_FORMAT", date |-> NoDate]
        ELSE IF DateAfter(birth_date, today)
        THEN [ok |-> FALSE, error_code |-> "BIRTH_DATE_FUTURE", date |-> NoDate]
        ELSE IF birth_date.year < MinBirthYear
        THEN [ok |-> FALSE, error_code |-> "BIRTH_DATE_TOO_OLD", date |-> NoDate]
        ELSE [ok |-> TRUE, error_code |-> "none",
              date |-> [year |-> birth_date.year, month |-> birth_date.month,
                        day |-> birth_date.day]]

\* the values of date.today()
Todays ==
    {[year |-> 2025, month |-> 1, day |-> 1],
     [year |-> 2026, month |-> 11, day |-> 1]}

\* "Nguyễn Văn A"
NGUYEN_VAN_A == <<78, 103, 117, 121, 7877, 110, 32, 86, 259, 110, 32, 65>>

\* the names given to calculate_profile
ProfileNames == KnownNames \cup {NGUYEN_VAN_A} \cup SeqsUpTo(NameChars, 1)

\* the birth dates given to calculate_profile
ProfileDates ==
    {d \in Dates : d.year \in {1980, 1985, 1990, 2000} /\ d.day \in {1, 2, 15, 29}}

\* the characters str.isspace() holds for, which str.strip() removes
WhitespaceChars ==
    {9, 10, 11, 12, 13, 28, 29, 30, 31, 32, 133, 160, 5760} \cup (8192..8202)
        \cup {8232, 8233, 8239, 8287, 12288}

RECURSIVE lstrip(_)
lstrip(s) ==
    IF s # <<>> /\ s[1] \in WhitespaceChars THEN lstrip(Tail(s)) ELSE s

RECURSIVE rstrip(_)
rstrip(s) ==
    IF s # <<>> /\ s[Len(s)] \in WhitespaceChars
    THEN rstrip(SubSeq(s, 1, Len(s) - 1))
    ELSE s

\* str.strip()
strip(s) == rstrip(lstrip(s))

\* the longest name validate_name accepts
MaxNameLength == 100

\* validate_name returning the name as given
validate_name_NoStrip(full_name) ==
    IF full_name = <<>> \/ strip(full_name) = <<>>
    THEN [ok |-> FALSE, error_code |-> "EMPTY_NAME", name |-> <<>>]
    ELSE IF Len(full_name) > MaxNameLength
    THEN [ok |-> FALSE, error_code |-> "NAME_TOO_LONG", name |-> <<>>]
    ELSE [ok |-> TRUE, error_code |-> "none", name |-> full_name]

\* validate_name: the name returned, or the code of the ValidationError
validate_name(full_name) ==
    IF full_name = <<>> \/ strip(full_name) = <<>>
    THEN [ok |-> FALSE, error_code |-> "EMPTY_NAME", name |-> <<>>]
    ELSE IF Len(full_name) > MaxNameLength
    THEN [ok |-> FALSE, error_code |-> "NAME_TOO_LONG", name |-> <<>>]
    ELSE [ok |-> TRUE, error_code |-> "none", name |-> strip(full_name)]

\* the longest run of whitespace put around a name
MaxPad == 2

\* space, tab, no-break space
PadChars == {32, 9, 160}

Pads == SeqsUpTo(PadChars, MaxPad)

\* "a" * k
Repeat(c, k) == [i \in 1..k |-> c]

\* names without whitespace at their ends: short ones, one with inner
\* spaces, and runs of "a" around the length limit
NameBodies ==
    {Repeat(97, k) : k \in {0, 1, 2} \cup ((MaxNameLength - 3)..(MaxNameLength + 2))}
        \cup {NGUYEN_VAN_A}

\* the names given to validate_name
PaddedNames == {l \o b \o r : l \in Pads, b \in NameBodies, r \in Pads}

(***************************************************************************)
(* PipecatBotService: the registry of pipelines and its callers.           *)
(***************************************************************************)
\* the conversation ids the callers use
ConversationIds == {"conv-1", "conv-2"}
\* the coroutines that call the service concurrently
BotCallers == {"a", "b"}
\* at most this many PipelineTask objects are constructed
MaxTasks == 3
\* _pipelines and _transports start as {}
EmptyRegistry == [c \in {} |-> 0]
\* a coroutine that is not inside a call of the service
NoCall ==
    [op |-> "none", pc |-> "idle", conversation_id |-> "none", task |-> 0,
     ids |-> <<>>, snapshot |-> {}, error |-> "none", status |-> "none"]

\* create_pipeline: conversation_id in self._pipelines
HasPipeline_Never(registry, conversation_id) == FALSE

HasPipeline(registry, conversation_id) == conversation_id \in DOMAIN registry

\* destroy_pipeline, get_pipeline_status: conversation_id not in self._pipelines
NoPipeline(registry, conversation_id) == conversation_id \notin DOMAIN registry

\* self._pipelines[conversation_id] = task, self._transports[...] = transport
Register(registry, conversation_id, obj) ==
    [c \in DOMAIN registry \cup {conversation_id} |->
        IF c = conversation_id THEN obj ELSE registry[c]]

\* del self._pipelines[conversation_id], del self._transports[...]
Unregister_Keep(registry, conversation_id) == registry

Unregister(registry, conversation_id) ==
    [c \in DOMAIN registry \ {conversation_id} |-> registry[c]]

(***************************************************************************)
(* ConversationService behind its routes: the requests and their state.    *)
(***************************************************************************)
\* the requests that save a message concurrently
Savers == {"s1", "s2"}
\* at most this many rooms are created at Daily.co
MaxRooms == 2
\* at most this many message requests are started
MaxSaves == 3
\* no request POST /conversations in progress
NoCreate ==
    [pc |-> "idle", room |-> 0, conversation_id |-> "none", flushed |-> FALSE,
     cleanup |-> "none", error |-> "none"]
\* no message request in progress
NoSave ==
    [pc |-> "idle", type |-> "none", conversation_id |-> "none", message |-> 0,
     messages |-> <<>>, written |-> FALSE, error |-> "none"]

(***************************************************************************)
(* NumerologyService.create_profile and get_profile: the requests.         *)
(***************************************************************************)
\* the requests that run concurrently, each with its own session
ProfileCallers == {"r1", "r2"}
\* the users of the requests
UserIds == {"u1", "u2"}
\* at most this many rows are inserted
MaxProfiles == 2
\* no request in progress
NoProfileCall ==
    [op |-> "none", pc |-> "idle", user_id |-> "none", existing |-> 0,
     profile_data |-> NoOut, found |-> 0, error |-> "none"]

(***************************************************************************)
(* The state machine.                                                      *)
(***************************************************************************)
\* no call of the library or of NumerologyService's pure methods in progress
LibInit ==
    /\ fn = "none"
    /\ arg = NoArg
    /\ pc = "idle"
    /\ n = 0
    /\ result = 0
    /\ out = NoOut
    /\ error = "none"

\* no request in progress
NoRequests ==
    /\ botCalls = [p \in BotCallers |-> NoCall]
    /\ message_semaphores = [s \in Savers |-> EmptyRegistry]
    /\ createCall = NoCreate
    /\ saveCalls = [s \in Savers |-> NoSave]
    /\ saved = 0
    /\ succeeded = {}
    /\ profileCalls = [p \in ProfileCallers |-> NoProfileCall]

\* the process has started: empty registry, no room, empty tables
Init ==
    /\ LibInit
    /\ NoRequests
    /\ numerology_profiles = {}
    /\ inserted = 0
    /\ _pipelines = EmptyRegistry
    /\ _transports = EmptyRegistry
    /\ created = 0
    /\ rooms = {}
    /\ roomsCreated = 0
    /\ conversations = EmptyRegistry
    /\ redis = {}

\* one request POST /conversations has been answered 200: the conversation
\* conv-1 is committed without messages, its room exists, its room info is
\* cached and its bot pipeline is registered
OneConversation ==
    /\ LibInit
    /\ NoRequests
    /\ numerology_profiles = {}
    /\ inserted = 0
    /\ _pipelines = Register(EmptyRegistry, "conv-1", 1)
    /\ _transports = Register(EmptyRegistry, "conv-1", 1)
    /\ created = 1
    /\ rooms = {1}
    /\ roomsCreated = 1
    /\ conversations = Register(EmptyRegistry, "conv-1", <<>>)
    /\ redis = {[key |-> "daily", conversation_id |-> "conv-1", message |-> 0]}

\* _reduce_to_single_digit(x) called directly; it starts with n = abs(int(n))
CallReduce ==
    /\ pc = "idle"
    /\ \E x \in Numbers :
        /\ fn' = "reduce"
        /\ arg' = [NoArg EXCEPT !.num = x]
        /\ n' = abs(x)
    /\ pc' = "loop"
    /\ result' = 0
    /\ UNCHANGED <<out, error>>
    /\ UNCHANGED serviceVars

\* calculateLifePath(birthDate) up to its call of _reduce_to_single_digit(total)
CallLifePath ==
    /\ pc = "idle"
    /\ \E d \in Dates :
        /\ fn' = "lifePath"
        /\ arg' = [NoArg EXCEPT !.year = d.year, !.month = d.month, !.day = d.day]
        /\ n' = abs(LifePathTotal(d))
    /\ pc' = "loop"
    /\ result' = 0
    /\ UNCHANGED <<out, error>>
    /\ UNCHANGED serviceVars

\* calculateLifePath(birthDate) with a string: date.fromisoformat raises, or
\* the function goes on as with a date
CallLifePathStr ==
    /\ pc = "idle"
    /\ \E birthDate \in DateStrings :
        LET parsed == fromisoformat(birthDate)
        IN  /\ fn' = "lifePath"
            /\ arg' = [NoArg EXCEPT !.isStr = TRUE, !.text = birthDate,
                                    !.year = parsed.year, !.month = parsed.month,
                                    !.day = parsed.day]
            /\ IF parsed.ok
               THEN /\ n' = abs(LifePathTotal(parsed))
                    /\ pc' = "loop"
                    /\ error' = "none"
               ELSE /\ n' = 0
                    /\ pc' = "raised"
                    /\ error' = "ValueError"
    /\ result' = 0
    /\ UNCHANGED out
    /\ UNCHANGED serviceVars

\* calculateDestiny(fullName) up to its call of _reduce_to_single_digit(total)
CallDestiny ==
    /\ pc = "idle"
    /\ \E fullName \in Names :
        /\ fn' = "destiny"
        /\ arg' = [NoArg EXCEPT !.name = fullName]
        /\ n' = abs(DestinyTotal(fullName))
    /\ pc' = "loop"
    /\ result' = 0
    /\ UNCHANGED <<out, error>>
    /\ UNCHANGED serviceVars

\* calculateSoulUrge(fullName) up to its call of _reduce_to_single_digit(total)
CallSoulUrge ==
    /\ pc = "idle"
    /\ \E fullName \in Names :
        /\ fn' = "soulUrge"
        /\ arg' = [NoArg EXCEPT !.name = fullName]
        /\ n' = abs(SoulUrgeTotal(fullName))
    /\ pc' = "loop"
    /\ result' = 0
    /\ UNCHANGED <<out, error>>
    /\ UNCHANGED serviceVars

\* calculatePersonality(fullName) up to its call of _reduce_to_single_digit(total)
CallPersonality ==
    /\ pc = "idle"
    /\ \E fullName \in Names :
        /\ fn' = "personality"
        /\ arg' = [NoArg EXCEPT !.name = fullName]
        /\ n' = abs(PersonalityTotal(fullName))
    /\ pc' = "loop"
    /\ result' = 0
    /\ UNCHANGED <<out, error>>
    /\ UNCHANGED serviceVars

\* calculatePersonalYear up to its call of _reduce_to_single_digit(total)
CallPersonalYear ==
    /\ pc = "idle"
    /\ \E birthMonth \in 1..12, birthDay \in 1..31, currentYear \in TargetYears :
        /\ fn' = "personalYear"
        /\ arg' = [NoArg EXCEPT !.month = birthMonth, !.day = birthDay,
                                !.year = currentYear]
        /\ n' = abs(PersonalYearTotal(birthMonth, birthDay, currentYear))
    /\ pc' = "loop"
    /\ result' = 0
    /\ UNCHANGED <<out, error>>
    /\ UNCHANGED serviceVars

\* calculatePersonalMonth up to its call of _reduce_to_single_digit(total)
CallPersonalMonth ==
    /\ pc = "idle"
    /\ \E birthDay \in 1..31, currentMonth \in 1..12, currentYear \in TargetYears :
        /\ fn' = "personalMonth"
        /\ arg' = [NoArg EXCEPT !.month = currentMonth, !.day = birthDay,
                                !.year = currentYear]
        /\ n' = abs(PersonalMonthTotal(birthDay, currentMonth, currentYear))
    /\ pc' = "loop"
    /\ result' = 0
    /\ UNCHANGED <<out, error>>
    /\ UNCHANGED serviceVars

\* get_letter_value(letter)
CallGetLetterValue ==
    /\ pc = "idle"
    /\ \E letter \in Alphabet :
        /\ fn' = "get_letter_value"
        /\ arg' = [NoArg EXCEPT !.name = <<letter>>]
        /\ result' = get_letter_value(letter)
    /\ pc' = "done"
    /\ UNCHANGED <<n, out, error>>
    /\ UNCHANGED serviceVars

\* is_vowel(letter)
CallIsVowel ==
    /\ pc = "idle"
    /\ \E letter \in Alphabet :
        /\ fn' = "is_vowel"
        /\ arg' = [NoArg EXCEPT !.name = <<letter>>]
        /\ out' = [kind |-> "bool", val |-> is_vowel(letter)]
    /\ pc' = "done"
    /\ UNCHANGED <<n, result, error>>
    /\ UNCHANGED serviceVars

\* is_consonant(letter)
CallIsConsonant ==
    /\ pc = "idle"
    /\ \E letter \in Alphabet :
        /\ fn' = "is_consonant"
        /\ arg' = [NoArg EXCEPT !.name = <<letter>>]
        /\ out' = [kind |-> "bool", val |-> is_consonant(letter)]
    /\ pc' = "done"
    /\ UNCHANGED <<n, result, error>>
    /\ UNCHANGED serviceVars

\* getInterpretation(numberType, value, language)
CallGetInterpretation ==
    /\ pc = "idle"
    /\ \E numberType \in NumberTypes, value \in LookupValues,
          language \in Languages :
        LET r == getInterpretation(numberType, value, language)
        IN  /\ fn' = "getInterpretation"
            /\ arg' = [NoArg EXCEPT !.category = numberType, !.num = value,
                                    !.language = language]
            /\ IF r.ok
               THEN /\ out' = [kind |-> "text", val |-> r.text]
                    /\ error' = "none"
                    /\ pc' = "done"
               ELSE /\ out' = NoOut
                    /\ error' = r.error
                    /\ pc' = "raised"
    /\ UNCHANGED <<n, result>>
    /\ UNCHANGED serviceVars

\* NumerologyService.calculate_profile(full_name, birth_date)
CallCalculateProfile ==
    /\ pc = "idle"
    /\ \E full_name \in ProfileNames, birth_date \in ProfileDates,
          today \in Todays :
        \E r \in {calculate_profile(full_name, birth_date, today)} :
            /\ fn' = "calculate_profile"
            /\ arg' = [NoArg EXCEPT !.name = full_name,
                                    !.year = birth_date.year,
                                    !.month = birth_date.month,
                                    !.day = birth_date.day,
                                    !.today = today]
            /\ IF r.ok
               THEN /\ out' = r.profile
                    /\ error' = "none"
                    /\ pc' = "done"
               ELSE /\ out' = NoOut
                    /\ error' = r.error_code
                    /\ pc' = "raised"
    /\ UNCHANGED <<n, result>>
    /\ UNCHANGED serviceVars

\* NumerologyService.validate_birth_date(birth_date_str)
CallValidateBirthDate ==
    /\ pc = "idle"
    /\ \E birth_date_str \in DateStrings, today \in Todays :
        LET r == validate_birth_date(birth_date_str, today)
        IN  /\ fn' = "validate_birth_date"
            /\ arg' = [NoArg EXCEPT !.isStr = TRUE, !.text = birth_date_str,
                                    !.today = today]
            /\ IF r.ok
               THEN /\ out' = [kind |-> "date", val |-> r.date]
                    /\ error' = "none"
                    /\ pc' = "done"
               ELSE /\ out' = NoOut
                    /\ error' = r.error_code
                    /\ pc' = "raised"
    /\ UNCHANGED <<n, result>>
    /\ UNCHANGED serviceVars

\* NumerologyService.validate_name(full_name)
CallValidateName ==
    /\ pc = "idle"
    /\ \E full_name \in PaddedNames :
        \E r \in {validate_name(full_name)} :
            /\ fn' = "validate_name"
            /\ arg' = [NoArg EXCEPT !.name = full_name]
            /\ IF r.ok
               THEN /\ out' = [kind |-> "name", val |-> r.name]
                    /\ error' = "none"
                    /\ pc' = "done"
               ELSE /\ out' = NoOut
                    /\ error' = r.error_code
                    /\ pc' = "raised"
    /\ UNCHANGED <<n, result>>
    /\ UNCHANGED serviceVars

\* one iteration of the while loop of _reduce_to_single_digit, or its return
ReduceStep ==
    /\ pc = "loop"
    /\ LET s == LoopStep(n)
       IN  /\ n' = s.val
           /\ pc' = IF s.done THEN "done" ELSE "loop"
           /\ result' = IF s.done THEN s.val ELSE result
    /\ UNCHANGED <<fn, arg, out, error>>
    /\ UNCHANGED serviceVars

\* the caller has taken the returned value or caught the exception
Return ==
    /\ pc \in {"done", "raised"}
    /\ fn' = "none"
    /\ arg' = NoArg
    /\ pc' = "idle"
    /\ n' = 0
    /\ result' = 0
    /\ out' = NoOut
    /\ error' = "none"
    /\ UNCHANGED serviceVars

Next ==
    \/ CallReduce
    \/ CallLifePath
    \/ CallLifePathStr
    \/ CallDestiny
    \/ CallSoulUrge
    \/ CallPersonality
    \/ CallPersonalYear
    \/ CallPersonalMonth
    \/ CallGetLetterValue
    \/ CallIsVowel
    \/ CallIsConsonant
    \/ CallGetInterpretation
    \/ CallCalculateProfile
    \/ CallValidateBirthDate
    \/ CallValidateName
    \/ ReduceStep
    \/ Return

Spec == Init /\ [][Next]_vars

(***************************************************************************)
(* PipecatBotService.  The service is a singleton, its registry a pair of  *)
(* class attributes; a task and its transport are numbered by the order in *)
(* which create_pipeline constructed them.  The coroutines of BotCallers    *)
(* run on one event loop: a step is the code between two awaits.           *)
(***************************************************************************)
\* get_pipeline_status(conversation_id); done is what task.done() answers
get_pipeline_status(registry, conversation_id, done) ==
    IF NoPipeline(registry, conversation_id)
    THEN [status |-> "not_found"]
    ELSE [status |-> IF done THEN "stopped" ELSE "running",
          conversation_id |-> conversation_id]

\* list(self._pipelines.keys()): a dict keeps its keys in insertion order,
\* which is the order in which their tasks were constructed
RECURSIVE KeysInOrder(_)
KeysInOrder(registry) ==
    IF DOMAIN registry = {}
    THEN <<>>
    ELSE LET first == CHOOSE c \in DOMAIN registry :
                          \A d \in DOMAIN registry : registry[c] <= registry[d]
         IN  <<first>> \o KeysInOrder([c \in DOMAIN registry \ {first} |->
                                             registry[c]])

\* destroy_pipeline from its first line to its first await
EnterDestroy(call, registry, transports, conversation_id) ==
    [call EXCEPT !.conversation_id = conversation_id,
                 !.task = registry[conversation_id],
                 !.pc = IF conversation_id \in DOMAIN transports
                        THEN "cleanup" ELSE "cancel"]

\* the for loop of destroy_all_pipelines up to the next await: a
\* destroy_pipeline that raises ValueError is logged and the loop goes on
RECURSIVE DestroyAllLoop(_, _, _, _)
DestroyAllLoop(call, registry, transports, ids) ==
    IF ids = <<>>
    THEN [call EXCEPT !.pc = "returned", !.ids = <<>>]
    ELSE IF NoPipeline(registry, Head(ids))
         THEN DestroyAllLoop(call, registry, transports, Tail(ids))
         ELSE EnterDestroy([call EXCEPT !.ids = Tail(ids)], registry,
                           transports, Head(ids))

\* await create_pipeline(room_url, conversation_id, token, user_id); ok is
\* whether the transport, the STT service and the pipeline could be built
CallCreatePipeline(p) ==
    /\ botCalls[p].pc = "idle"
    /\ \E conversation_id \in ConversationIds, ok \in BOOLEAN :
        /\ (ok /\ ~HasPipeline(_pipelines, conversation_id)) => created < MaxTasks
        /\ IF HasPipeline(_pipelines, conversation_id)
           THEN /\ botCalls' = [botCalls EXCEPT ![p] =
                       [NoCall EXCEPT !.op = "create_pipeline",
                                      !.conversation_id = conversation_id,
                                      !.pc = "raised", !.error = "ValueError"]]
                /\ UNCHANGED <<_pipelines, _transports, created>>
           ELSE IF ~ok
           THEN /\ botCalls' = [botCalls EXCEPT ![p] =
                       [NoCall EXCEPT !.op = "create_pipeline",
                                      !.conversation_id = conversation_id,
                                      !.pc = "raised", !.error = "Exception"]]
                /\ UNCHANGED <<_pipelines, _transports, created>>
           ELSE /\ created' = created + 1
                /\ _pipelines' = Register(_pipelines, conversation_id, created + 1)
                /\ _transports' = Register(_transports, conversation_id, created + 1)
                /\ botCalls' = [botCalls EXCEPT ![p] =
                       [NoCall EXCEPT !.op = "create_pipeline",
                                      !.conversation_id = conversation_id,
                                      !.task = created + 1,
                                      !.pc = "returned"]]
    /\ UNCHANGED <<libVars, convVars, profileVars>>

\* await destroy_pipeline(conversation_id) up to await transport.cleanup()
CallDestroyPipeline(p) ==
    /\ botCalls[p].pc = "idle"
    /\ \E conversation_id \in ConversationIds :
        botCalls' = [botCalls EXCEPT ![p] =
            IF NoPipeline(_pipelines, conversation_id)
            THEN [NoCall EXCEPT !.op = "destroy_pipeline",
                                !.conversation_id = conversation_id,
                                !.pc = "raised", !.error = "ValueError"]
            ELSE EnterDestroy([NoCall EXCEPT !.op = "destroy_pipeline"],
                              _pipelines, _transports, conversation_id)]
    /\ UNCHANGED <<_pipelines, _transports, created>>
    /\ UNCHANGED <<libVars, convVars, profileVars>>

\* transport.cleanup() has returned or raised (its exception is only
\* logged); destroy_pipeline goes on to task.cancel()
CleanupDone(p) ==
    /\ botCalls[p].pc = "cleanup"
    /\ botCalls' = [botCalls EXCEPT ![p].pc = "cancel"]
    /\ UNCHANGED <<_pipelines, _transports, created>>
    /\ UNCHANGED <<libVars, convVars, profileVars>>

\* task.cancel() has returned (ok) or raised: destroy_pipeline removes the
\* entries and returns, or raises and leaves them; inside
\* destroy_all_pipelines the exception is logged and the loop goes on
CancelDone(p) ==
    /\ botCalls[p].pc = "cancel"
    /\ \E ok \in BOOLEAN :
        \E deleted \in {ok /\ ~NoPipeline(_pipelines, botCalls[p].conversation_id)} :
            /\ _pipelines' = IF deleted
                             THEN Unregister(_pipelines, botCalls[p].conversation_id)
                             ELSE _pipelines
            /\ _transports' = IF deleted
                              THEN Unregister(_transports, botCalls[p].conversation_id)
                              ELSE _transports
            /\ botCalls' = [botCalls EXCEPT ![p] =
                   IF botCalls[p].op = "destroy_all_pipelines"
                   THEN DestroyAllLoop(botCalls[p], _pipelines', _transports',
                                       botCalls[p].ids)
                   ELSE IF deleted
                   THEN [botCalls[p] EXCEPT !.pc = "returned"]
                   ELSE [botCalls[p] EXCEPT !.pc = "raised",
                            !.error = IF ok THEN "KeyError" ELSE "Exception"]]
    /\ UNCHANGED created
    /\ UNCHANGED <<libVars, convVars, profileVars>>

\* await destroy_all_pipelines() up to its first await
CallDestroyAllPipelines(p) ==
    /\ botCalls[p].pc = "idle"
    /\ botCalls' = [botCalls EXCEPT ![p] =
           DestroyAllLoop([NoCall EXCEPT !.op = "destroy_all_pipelines",
                                         !.snapshot = DOMAIN _pipelines],
                          _pipelines, _transports, KeysInOrder(_pipelines))]
    /\ UNCHANGED <<_pipelines, _transports, created>>
    /\ UNCHANGED <<libVars, convVars, profileVars>>

\* get_pipeline_status(conversation_id), which has no await
CallGetPipelineStatus(p) ==
    /\ botCalls[p].pc = "idle"
    /\ \E conversation_id \in ConversationIds, done \in BOOLEAN :
        botCalls' = [botCalls EXCEPT ![p] =
            [NoCall EXCEPT !.op = "get_pipeline_status",
                           !.conversation_id = conversation_id,
                           !.pc = "returned",
                           !.status = get_pipeline_status(_pipelines,
                                          conversation_id, done).status]]
    /\ UNCHANGED <<_pipelines, _transports, created>>
    /\ UNCHANGED <<libVars, convVars, profileVars>>

\* the caller has taken the result or caught the exception
BotReturn(p) ==
    /\ botCalls[p].pc \in {"returned", "raised"}
    /\ botCalls' = [botCalls EXCEPT ![p] = NoCall]
    /\ UNCHANGED <<_pipelines, _transports, created>>
    /\ UNCHANGED <<libVars, convVars, profileVars>>

BotNext ==
    \E p \in BotCallers :
        \/ CallCreatePipeline(p)
        \/ CallDestroyPipeline(p)
        \/ CleanupDone(p)
        \/ CancelDone(p)
        \/ CallDestroyAllPipelines(p)
        \/ CallGetPipelineStatus(p)
        \/ BotReturn(p)

BotSpec == Init /\ [][BotNext]_vars

(***************************************************************************)
(* ConversationService.create_conversation_with_daily behind the route     *)
(* POST /conversations.  Every await is a step whose call returns (ok) or  *)
(* raises; the request has its own database session, whose pending INSERT  *)
(* is createCall.flushed.                                                  *)
(***************************************************************************)
\* the except clause of create_conversation_with_daily up to its first
\* await: delete_room if a room was created, db.rollback() otherwise
CreateFailed(call, err) ==
    [call EXCEPT !.error = err,
                 !.pc = IF call.room # 0 THEN "delete_room" ELSE "rollback"]

\* POST /conversations up to await daily_client.create_room; valid is
\* whether UUID(user_id) accepts the user id
CallCreateConversation ==
    /\ createCall.pc = "idle"
    /\ roomsCreated < MaxRooms
    /\ ConversationIds \ DOMAIN conversations # {}
    /\ \E valid \in BOOLEAN :
        createCall' = IF valid
                      THEN [NoCreate EXCEPT !.pc = "create_room"]
                      ELSE CreateFailed(NoCreate, "ValueError")
    /\ UNCHANGED <<rooms, roomsCreated, conversations, redis,
                   message_semaphores, saveCalls, saved, succeeded>>
    /\ UNCHANGED <<libVars, botVars, profileVars>>

\* daily_client.create_room has returned the room or raised
RoomCreated ==
    /\ createCall.pc = "create_room"
    /\ \E ok \in BOOLEAN :
        IF ok
        THEN /\ roomsCreated' = roomsCreated + 1
             /\ rooms' = rooms \cup {roomsCreated + 1}
             /\ createCall' = [createCall EXCEPT !.room = roomsCreated + 1,
                                                 !.pc = "user_token"]
        ELSE /\ createCall' = CreateFailed(createCall, "Exception")
             /\ UNCHANGED <<rooms, roomsCreated>>
    /\ UNCHANGED <<conversations, redis, message_semaphores, saveCalls,
                   saved, succeeded>>
    /\ UNCHANGED <<libVars, botVars, profileVars>>

\* the first create_meeting_token (the user's) has returned or raised
UserTokenCreated ==
    /\ createCall.pc = "user_token"
    /\ \E ok \in BOOLEAN :
        createCall' = IF ok
                      THEN [createCall EXCEPT !.pc = "bot_token"]
                      ELSE CreateFailed(createCall, "Exception")
    /\ UNCHANGED <<rooms, roomsCreated, conversations, redis,
                   message_semaphores, saveCalls, saved, succeeded>>
    /\ UNCHANGED <<libVars, botVars, profileVars>>

\* the second create_meeting_token (the bot's) has returned or raised; on
\* success the Conversation is added to the session and db.flush() awaited
BotTokenCreated ==
    /\ createCall.pc = "bot_token"
    /\ \E ok \in BOOLEAN :
        createCall' = IF ok
                      THEN [createCall EXCEPT !.pc = "flush"]
                      ELSE CreateFailed(createCall, "Exception")
    /\ UNCHANGED <<rooms, roomsCreated, conversations, redis,
                   message_semaphores, saveCalls, saved, succeeded>>
    /\ UNCHANGED <<libVars, botVars, profileVars>>

\* db.flush() has sent the INSERT, which gives the conversation its id, or
\* raised
ConversationFlushed ==
    /\ createCall.pc = "flush"
    /\ \E ok \in BOOLEAN, id \in ConversationIds \ DOMAIN conversations :
        createCall' = IF ok
                      THEN [createCall EXCEPT !.conversation_id = id,
                                              !.flushed = TRUE,
                                              !.pc = "setex"]
                      ELSE CreateFailed(createCall, "Exception")
    /\ UNCHANGED <<rooms, roomsCreated, conversations, redis,
                   message_semaphores, saveCalls, saved, succeeded>>
    /\ UNCHANGED <<libVars, botVars, profileVars>>

\* redis.setex of conversation:{id}:daily has returned or raised
RoomCached ==
    /\ createCall.pc = "setex"
    /\ \E ok \in BOOLEAN :
        IF ok
        THEN /\ redis' = redis \cup
                    {[key |-> "daily",
                      conversation_id |-> createCall.conversation_id,
                      message |-> 0]}
             /\ createCall' = [createCall EXCEPT !.pc = "commit"]
        ELSE /\ createCall' = CreateFailed(createCall, "Exception")
             /\ UNCHANGED redis
    /\ UNCHANGED <<rooms, roomsCreated, conversations, message_semaphores,
                   saveCalls, saved, succeeded>>
    /\ UNCHANGED <<libVars, botVars, profileVars>>

\* db.commit() has made the row durable (numbers_calculated = {}) or raised
ConversationCommitted ==
    /\ createCall.pc = "commit"
    /\ \E ok \in BOOLEAN :
        IF ok
        THEN /\ conversations' = Register(conversations,
                                          createCall.conversation_id, <<>>)
             /\ createCall' = [createCall EXCEPT !.flushed = FALSE,
                                                 !.pc = "refresh"]
        ELSE /\ createCall' = CreateFailed(createCall, "Exception")
             /\ UNCHANGED conversations
    /\ UNCHANGED <<rooms, roomsCreated, redis, message_semaphores, saveCalls,
                   saved, succeeded>>
    /\ UNCHANGED <<libVars, botVars, profileVars>>

\* db.refresh(conversation) has returned or raised.  On success the bot
\* pipeline is started: create_pipeline has no await, and what it raises
\* (built is whether its objects could be constructed) is only logged; the
\* method returns conversation_id, room_url and token
ConversationRefreshed ==
    /\ createCall.pc = "refresh"
    /\ \E ok \in BOOLEAN, built \in BOOLEAN :
        /\ (ok /\ built /\ ~HasPipeline(_pipelines, createCall.conversation_id))
              => created < MaxTasks
        /\ IF ~ok
           THEN /\ createCall' = CreateFailed(createCall, "Exception")
                /\ UNCHANGED <<_pipelines, _transports, created>>
           ELSE /\ createCall' = [createCall EXCEPT !.pc = "returned"]
                /\ IF built /\ ~HasPipeline(_pipelines, createCall.conversation_id)
                   THEN /\ created' = created + 1
                        /\ _pipelines' = Register(_pipelines,
                               createCall.conversation_id, created + 1)
                        /\ _transports' = Register(_transports,
                               createCall.conversation_id, created + 1)
                   ELSE UNCHANGED <<_pipelines, _transports, created>>
    /\ UNCHANGED botCalls
    /\ UNCHANGED <<rooms, roomsCreated, conversations, redis,
                   message_semaphores, saveCalls, saved, succeeded>>
    /\ UNCHANGED <<libVars, profileVars>>

\* except: daily_client.delete_room(room["url"]) has deleted the room, or
\* raised, which is only logged; db.rollback() is awaited next
RoomDeleted ==
    /\ createCall.pc = "delete_room"
    /\ \E ok \in BOOLEAN :
        /\ rooms' = IF ok THEN rooms \ {createCall.room} ELSE rooms
        /\ createCall' = [createCall EXCEPT
               !.cleanup = IF ok THEN "deleted" ELSE "failed",
               !.pc = "rollback"]
    /\ UNCHANGED <<roomsCreated, conversations, redis, message_semaphores,
                   saveCalls, saved, succeeded>>
    /\ UNCHANGED <<libVars, botVars, profileVars>>

\* db.rollback() has discarded what the session had not committed; the
\* exception is raised again
CreateRolledBack ==
    /\ createCall.pc = "rollback"
    /\ createCall' = [createCall EXCEPT !.flushed = FALSE, !.pc = "raised"]
    /\ UNCHANGED <<rooms, roomsCreated, conversations, redis,
                   message_semaphores, saveCalls, saved, succeeded>>
    /\ UNCHANGED <<libVars, botVars, profileVars>>

\* the route has answered the request
CreateReturn ==
    /\ createCall.pc \in {"returned", "raised"}
    /\ createCall' = NoCreate
    /\ UNCHANGED <<rooms, roomsCreated, conversations, redis,
                   message_semaphores, saveCalls, saved, succeeded>>
    /\ UNCHANGED <<libVars, botVars, profileVars>>

\* requests POST /conversations, one after the other
CreateNext ==
    \/ CallCreateConversation
    \/ RoomCreated
    \/ UserTokenCreated
    \/ BotTokenCreated
    \/ ConversationFlushed
    \/ RoomCached
    \/ ConversationCommitted
    \/ ConversationRefreshed
    \/ RoomDeleted
    \/ CreateRolledBack
    \/ CreateReturn

CreateSpec == Init /\ [][CreateNext]_vars

(***************************************************************************)
(* The routes POST /{conversation_id}/messages/user and .../assistant.     *)
(* Each request builds its own ConversationService on its own session and  *)
(* calls save_user_message or save_assistant_message, then commits.  The   *)
(* session reads committed rows; an UPDATE it has flushed holds the row,   *)
(* so another session's UPDATE of that row waits for its commit or         *)
(* rollback.                                                               *)
(***************************************************************************)
\* ConversationService(db, redis), _get_semaphore (a new Semaphore(1)),
\* async with semaphore (free, so taken without waiting), up to
\* await db.execute(select ...)
CallSaveMessage(s) ==
    /\ saveCalls[s].pc = "idle"
    /\ saved < MaxSaves
    /\ \E conversation_id \in ConversationIds, type \in {"user", "assistant"} :
        /\ saveCalls' = [saveCalls EXCEPT ![s] =
               [NoSave EXCEPT !.type = type,
                              !.conversation_id = conversation_id,
                              !.message = saved + 1,
                              !.pc = "select"]]
        /\ message_semaphores' = [message_semaphores EXCEPT ![s] =
               Register(EmptyRegistry, conversation_id, 0)]
    /\ saved' = saved + 1
    /\ UNCHANGED <<rooms, roomsCreated, conversations, redis, createCall,
                   succeeded>>
    /\ UNCHANGED <<libVars, botVars, profileVars>>

\* the select has returned: no row raises ValueError (the except clause
\* awaits db.rollback()), otherwise the message is appended to the loaded
\* numbers_calculated["messages"] and db.flush() awaited
ConversationSelected(s) ==
    /\ saveCalls[s].pc = "select"
    /\ saveCalls' = [saveCalls EXCEPT ![s] =
           IF saveCalls[s].conversation_id \notin DOMAIN conversations
           THEN [saveCalls[s] EXCEPT !.error = "ValueError", !.pc = "rollback"]
           ELSE [saveCalls[s] EXCEPT
                    !.messages = Append(conversations[saveCalls[s].conversation_id],
                                        saveCalls[s].message),
                    !.pc = "flush"]]
    /\ UNCHANGED <<rooms, roomsCreated, conversations, redis,
                   message_semaphores, createCall, saved, succeeded>>
    /\ UNCHANGED <<libVars, botVars, profileVars>>

\* db.flush() has sent the UPDATE of the row; redis.setex is awaited
MessageFlushed(s) ==
    /\ saveCalls[s].pc = "flush"
    /\ \A t \in Savers \ {s} :
           ~(saveCalls[t].written
             /\ saveCalls[t].conversation_id = saveCalls[s].conversation_id)
    /\ saveCalls' = [saveCalls EXCEPT ![s].written = TRUE, ![s].pc = "setex"]
    /\ UNCHANGED <<rooms, roomsCreated, conversations, redis,
                   message_semaphores, createCall, saved, succeeded>>
    /\ UNCHANGED <<libVars, botVars, profileVars>>

\* redis.setex has cached the message; the method releases the semaphore
\* and returns, and the route awaits db.commit()
MessageCached(s) ==
    /\ saveCalls[s].pc = "setex"
    /\ redis' = redis \cup
           {[key |-> saveCalls[s].type,
             conversation_id |-> saveCalls[s].conversation_id,
             message |-> saveCalls[s].message]}
    /\ message_semaphores' = [message_semaphores EXCEPT ![s] =
           Register(EmptyRegistry, saveCalls[s].conversation_id, 1)]
    /\ saveCalls' = [saveCalls EXCEPT ![s].pc = "commit"]
    /\ UNCHANGED <<rooms, roomsCreated, conversations, createCall, saved,
                   succeeded>>
    /\ UNCHANGED <<libVars, botVars, profileVars>>

\* db.commit() of the route has made the UPDATE durable; the request is
\* answered with the result of the method
MessageCommitted(s) ==
    /\ saveCalls[s].pc = "commit"
    /\ conversations' = [conversations EXCEPT
           ![saveCalls[s].conversation_id] = saveCalls[s].messages]
    /\ succeeded' = succeeded \cup
           {[message |-> saveCalls[s].message,
             conversation_id |-> saveCalls[s].conversation_id]}
    /\ saveCalls' = [saveCalls EXCEPT ![s].written = FALSE,
                                      ![s].pc = "returned"]
    /\ UNCHANGED <<rooms, roomsCreated, redis, message_semaphores, createCall,
                   saved>>
    /\ UNCHANGED <<libVars, botVars, profileVars>>

\* db.rollback() of the except clause has returned: the semaphore is
\* released, the exception raised again, and the route rolls back and
\* answers 500
MessageRolledBack(s) ==
    /\ saveCalls[s].pc = "rollback"
    /\ message_semaphores' = [message_semaphores EXCEPT ![s] =
           Register(EmptyRegistry, saveCalls[s].conversation_id, 1)]
    /\ saveCalls' = [saveCalls EXCEPT ![s].written = FALSE,
                                      ![s].pc = "raised"]
    /\ UNCHANGED <<rooms, roomsCreated, conversations, redis, createCall,
                   saved, succeeded>>
    /\ UNCHANGED <<libVars, botVars, profileVars>>

\* the request is over, and with it its service and session
SaveReturn(s) ==
    /\ saveCalls[s].pc \in {"returned", "raised"}
    /\ saveCalls' = [saveCalls EXCEPT ![s] = NoSave]
    /\ message_semaphores' = [message_semaphores EXCEPT ![s] = EmptyRegistry]
    /\ UNCHANGED <<rooms, roomsCreated, conversations, redis, createCall,
                   saved, succeeded>>
    /\ UNCHANGED <<libVars, botVars, profileVars>>

\* concurrent message requests once a conversation has been created
SaveNext ==
    \E s \in Savers :
        \/ CallSaveMessage(s)
        \/ ConversationSelected(s)
        \/ MessageFlushed(s)
        \/ MessageCached(s)
        \/ MessageCommitted(s)
        \/ MessageRolledBack(s)
        \/ SaveReturn(s)

SaveSpec == OneConversation /\ [][SaveNext]_vars

(***************************************************************************)
(* NumerologyService.create_profile and get_profile behind the routes of   *)
(* apps/api/src/routes/numerology.py.  Each request has its own session,   *)
(* which reads committed rows; the table has an index on user_id and no    *)
(* unique constraint.                                                      *)
(***************************************************************************)
\* the birth dates of the requests: one that is accepted and one after today
RequestDates ==
    {isoformat([year |-> 1985, month |-> 3, day |-> 29]),
     isoformat([year |-> 2026, month |-> 12, day |-> 31])}

\* date.today() during the requests
RequestToday == [year |-> 2026, month |-> 11, day |-> 1]

\* create_profile from validate_birth_date to calculate_profile, given what
\* the two validations answered
PreparedProfile(birth_date, full_name, today) ==
    IF ~birth_date.ok
    THEN [ok |-> FALSE, error_code |-> birth_date.error_code, profile |-> NoOut]
    ELSE IF ~full_name.ok
    THEN [ok |-> FALSE, error_code |-> full_name.error_code, profile |-> NoOut]
    ELSE calculate_profile(full_name.name, birth_date.date, today)

\* the rows of a user: select(NumerologyProfile).where(user_id == ...)
ProfilesOf(table, user_id) == {row \in table : row.user_id = user_id}

\* POST /profile: create_profile up to await session.execute(select ...),
\* or up to await session.rollback() when a validation fails
CallCreateProfile(p) ==
    /\ profileCalls[p].pc = "idle"
    /\ \E user_id \in UserIds, full_name \in {JOHN, MARIE, <<>>},
          birth_date \in RequestDates :
        \E r \in {PreparedProfile(validate_birth_date(birth_date, RequestToday),
                                   validate_name(full_name), RequestToday)} :
            profileCalls' = [profileCalls EXCEPT ![p] =
                IF r.ok
                THEN [NoProfileCall EXCEPT !.op = "create_profile",
                                           !.user_id = user_id,
                                           !.profile_data = r.profile,
                                           !.pc = "select"]
                ELSE [NoProfileCall EXCEPT !.op = "create_profile",
                                           !.user_id = user_id,
                                           !.error = r.error_code,
                                           !.pc = "rollback"]]
    /\ UNCHANGED <<numerology_profiles, inserted>>
    /\ UNCHANGED <<libVars, botVars, convVars>>

\* the select has returned: scalar_one_or_none() raises on several rows
\* (DATABASE_ERROR after the rollback), gives the row to update, or None,
\* and then a new row is added to the session; session.commit() is awaited
ProfileSelected(p) ==
    /\ profileCalls[p].op = "create_profile"
    /\ profileCalls[p].pc = "select"
    /\ \E rows \in {ProfilesOf(numerology_profiles, profileCalls[p].user_id)} :
        profileCalls' = [profileCalls EXCEPT ![p] =
            IF Cardinality(rows) > 1
            THEN [profileCalls[p] EXCEPT !.error = "DATABASE_ERROR",
                                         !.pc = "rollback"]
            ELSE IF rows = {}
            THEN [profileCalls[p] EXCEPT !.existing = 0, !.pc = "commit"]
            ELSE [profileCalls[p] EXCEPT
                     !.existing = (CHOOSE row \in rows : TRUE).id,
                     !.pc = "commit"]]
    /\ UNCHANGED <<numerology_profiles, inserted>>
    /\ UNCHANGED <<libVars, botVars, convVars>>

\* session.commit() has written the UPDATE of the existing row or the
\* INSERT of the new one (ok), or raised (DATABASE_ERROR after the rollback)
ProfileCommitted(p) ==
    /\ profileCalls[p].op = "create_profile"
    /\ profileCalls[p].pc = "commit"
    /\ \E ok \in BOOLEAN :
        /\ (ok /\ profileCalls[p].existing = 0) => inserted < MaxProfiles
        /\ IF ~ok
           THEN /\ profileCalls' = [profileCalls EXCEPT
                       ![p].error = "DATABASE_ERROR", ![p].pc = "rollback"]
                /\ UNCHANGED <<numerology_profiles, inserted>>
           ELSE IF profileCalls[p].existing = 0
           THEN /\ numerology_profiles' = numerology_profiles \cup
                       {[id |-> inserted + 1,
                         user_id |-> profileCalls[p].user_id,
                         profile |-> profileCalls[p].profile_data]}
                /\ inserted' = inserted + 1
                /\ profileCalls' = [profileCalls EXCEPT
                       ![p].found = inserted + 1, ![p].pc = "returned"]
           ELSE /\ numerology_profiles' =
                       {IF row.id = profileCalls[p].existing
                        THEN [row EXCEPT !.profile = profileCalls[p].profile_data]
                        ELSE row : row \in numerology_profiles}
                /\ UNCHANGED inserted
                /\ profileCalls' = [profileCalls EXCEPT
                       ![p].found = profileCalls[p].existing,
                       ![p].pc = "returned"]
    /\ UNCHANGED <<libVars, botVars, convVars>>

\* session.rollback() has returned; the ValidationError is raised
ProfileRolledBack(p) ==
    /\ profileCalls[p].pc = "rollback"
    /\ profileCalls' = [profileCalls EXCEPT ![p].pc = "raised"]
    /\ UNCHANGED <<numerology_profiles, inserted>>
    /\ UNCHANGED <<libVars, botVars, convVars>>

\* GET /profile/{user_id}: get_profile up to await session.execute
CallGetProfile(p) ==
    /\ profileCalls[p].pc = "idle"
    /\ \E user_id \in UserIds :
        profileCalls' = [profileCalls EXCEPT ![p] =
            [NoProfileCall EXCEPT !.op = "get_profile", !.user_id = user_id,
                                  !.pc = "select"]]
    /\ UNCHANGED <<numerology_profiles, inserted>>
    /\ UNCHANGED <<libVars, botVars, convVars>>

\* the select of get_profile has returned: the profile of the single row,
\* None without a row, and None when scalar_one_or_none() raises on several
\* rows (the exception is logged)
ProfileFetched(p) ==
    /\ profileCalls[p].op = "get_profile"
    /\ profileCalls[p].pc = "select"
    /\ \E rows \in {ProfilesOf(numerology_profiles, profileCalls[p].user_id)} :
        profileCalls' = [profileCalls EXCEPT ![p] =
            IF Cardinality(rows) = 1
            THEN [profileCalls[p] EXCEPT
                     !.found = (CHOOSE row \in rows : TRUE).id,
                     !.profile_data = (CHOOSE row \in rows : TRUE).profile,
                     !.pc = "returned"]
            ELSE [profileCalls[p] EXCEPT !.found = 0, !.pc = "returned"]]
    /\ UNCHANGED <<numerology_profiles, inserted>>
    /\ UNCHANGED <<libVars, botVars, convVars>>

\* the route has answered the request
ProfileReturn(p) ==
    /\ profileCalls[p].pc \in {"returned", "raised"}
    /\ profileCalls' = [profileCalls EXCEPT ![p] = NoProfileCall]
    /\ UNCHANGED <<numerology_profiles, inserted>>
    /\ UNCHANGED <<libVars, botVars, convVars>>

ProfileNext ==
    \E p \in ProfileCallers :
        \/ CallCreateProfile(p)
        \/ ProfileSelected(p)
        \/ ProfileCommitted(p)
        \/ ProfileRolledBack(p)
        \/ CallGetProfile(p)
        \/ ProfileFetched(p)
        \/ ProfileReturn(p)

ProfileSpec == Init /\ [][ProfileNext]_vars

(***************************************************************************)
(* The digit reducer.                                                      *)
(***************************************************************************)
NumerologyNumbers == (1..9) \cup {11, 22, 33}

NameFunctions == {"destiny", "soulUrge", "personality"}

\* C1: _reduce_to_single_digit, calculateLifePath, calculateDestiny,
\* calculateSoulUrge and calculatePersonality return a number in
\* {1..9, 11, 22, 33} for every integer, date and name, the empty name and
\* names without letters included.
C1_ResultInNumerologyNumbers ==
    (pc = "done" /\ fn \in {"reduce", "lifePath"} \cup NameFunctions)
        => result \in NumerologyNumbers

\* a name function has returned for a non-empty name that holds no letter
C1_Witness ==
    /\ pc = "done"
    /\ fn \in NameFunctions
    /\ arg.name # <<>>
    /\ \A i \in 1..Len(arg.name) : ~isalpha(arg.name[i])
    /\ result = 9

\* C2: calculatePersonalYear returns a number in 1..9 for every birth month,
\* birth day and target year, never a Master Number.
C2_PersonalYearInOneToNine ==
    (pc = "done" /\ fn = "personalYear") => result \in 1..9

\* C3: calculatePersonalMonth returns a number in 1..9 for every birth day,
\* target month and target year, never a Master Number.
C3_PersonalMonthInOneToNine ==
    (pc = "done" /\ fn = "personalMonth") => result \in 1..9

\* C4: whenever the value being reduced is 11, 22 or 33, as the input or
\* after a digit summation, _reduce_to_single_digit stops and returns it:
\* 11, 22 and 33 are fixed points and 29, 38 and 47 give 11.
C4_MasterNumberStops ==
    [][/\ (pc = "loop" /\ n \in MasterNumbers)
            => (pc' = "done" /\ result' = n)
       /\ (pc' = "done" /\ fn' = "reduce" /\ abs(arg'.num) \in MasterNumbers)
            => result' = abs(arg'.num)
       /\ (pc' = "done" /\ fn' = "reduce" /\ abs(arg'.num) \in {29, 38, 47})
            => result' = 11]_vars

\* 2999 -> 29 -> 11: a Master Number met after the second summation is returned
C4_Witness ==
    /\ pc = "done"
    /\ fn = "reduce"
    /\ arg.num = 2999
    /\ result = 11

RECURSIVE RefDigitSum(_)
\* the sum of the decimal digits of a natural number
RefDigitSum(v) == IF v = 0 THEN 0 ELSE (v % 10) + RefDigitSum(v \div 10)

RECURSIVE RefReduce(_)
\* the reference reduction of a natural number
RefReduce(v) ==
    IF v >= 10 /\ v \notin {11, 22, 33}
    THEN RefReduce(RefDigitSum(v))
    ELSE IF v = 0 THEN 9 ELSE v

\* C5: _reduce_to_single_digit(n) is the reference reduction of |n|; 10 gives 1,
\* 14 gives 5, 39 gives 3, 0 gives 9, and n and -n give the same number.
C5_EqualsReferenceReduction ==
    (pc = "done" /\ fn = "reduce") =>
        /\ result = RefReduce(IF arg.num < 0 THEN -arg.num ELSE arg.num)
        /\ result = _reduce_to_single_digit(-arg.num)
        /\ (arg.num = 10 => result = 1)
        /\ (arg.num = 14 => result = 5)
        /\ (arg.num = 39 => result = 3)
        /\ (arg.num = 0 => result = 9)

\* a negative number whose reduction takes two summations
C5_Witness ==
    /\ pc = "done"
    /\ fn = "reduce"
    /\ arg.num = -39
    /\ result = 3

\* C6: _reduce_to_single_digit is idempotent: reducing a returned number
\* returns it again.
C6_Idempotent ==
    (pc = "done" /\ fn = "reduce") => _reduce_to_single_digit(result) = result

\* the returned number is a Master Number, which a second reduction must keep
C6_Witness ==
    /\ pc = "done"
    /\ fn = "reduce"
    /\ arg.num = 38
    /\ result = 11
    /\ _reduce_to_single_digit(result) = 11

(***************************************************************************)
(* The calculators.                                                        *)
(***************************************************************************)
\* the sum of the eight digits of MM, DD and YYYY, by arithmetic
EightDigitSum(month, day, year) ==
    (month \div 10) + (month % 10) + (day \div 10) + (day % 10)
    + (year \div 1000) + ((year \div 100) % 10) + ((year \div 10) % 10)
    + (year % 10)

\* C7: calculateLifePath is the reduction, Master Numbers kept, of the sum of
\* the eight digits of the zero-padded month, day and year; 1985-03-29 gives 1,
\* 2000-01-01 gives 4 and 1980-11-02 gives 22.
C7_LifePathIsReducedDigitSum ==
    (pc = "done" /\ fn = "lifePath") =>
        /\ result = RefReduce(EightDigitSum(arg.month, arg.day, arg.year))
        /\ (arg.year = 1985 /\ arg.month = 3 /\ arg.day = 29 => result = 1)
        /\ (arg.year = 2000 /\ arg.month = 1 /\ arg.day = 1 => result = 4)
        /\ (arg.year = 1980 /\ arg.month = 11 /\ arg.day = 2 => result = 22)

\* the Life Path of 1980-11-02 has been returned
C7_Witness ==
    /\ pc = "done"
    /\ fn = "lifePath"
    /\ arg.year = 1980 /\ arg.month = 11 /\ arg.day = 2
    /\ result = 22

\* the sum of the letter values of the characters of a name that Keep selects
LetterSum(name, Keep(_)) ==
    SumSeq([i \in 1..Len(name) |->
                IF Keep(name[i]) THEN get_letter_value(name[i]) ELSE 0])

\* C8: calculateDestiny is the reduction of the sum of the letter values of all
\* letters of the name, calculateSoulUrge of its vowels only and
\* calculatePersonality of its consonants only; JOHN gives 2, 6 and 5, MARIE
\* gives Soul Urge 6 and Personality 4.
C8_NameNumbersAreReducedLetterSums ==
    (pc = "done" /\ fn \in NameFunctions) =>
        /\ fn = "destiny" =>
            /\ result = RefReduce(LetterSum(arg.name, LAMBDA c : TRUE))
            /\ (arg.name = JOHN => result = 2)
        /\ fn = "soulUrge" =>
            /\ result = RefReduce(LetterSum(arg.name, is_vowel))
            /\ (arg.name = JOHN => result = 6)
            /\ (arg.name = MARIE => result = 6)
        /\ fn = "personality" =>
            /\ result = RefReduce(LetterSum(arg.name, is_consonant))
            /\ (arg.name = JOHN => result = 5)
            /\ (arg.name = MARIE => result = 4)

\* the Soul Urge of MARIE has been returned
C8_Witness ==
    /\ pc = "done"
    /\ fn = "soulUrge"
    /\ arg.name = MARIE
    /\ result = 6

\* C9: for every name the vowel sum plus the consonant sum is the total letter
\* sum, all before reduction; a character with a letter value above 0 is
\* counted in exactly one of the two partial sums.
C9_VowelSumPlusConsonantSumIsTotal ==
    (pc \in {"loop", "done"} /\ fn \in NameFunctions) =>
        /\ _sum_letter_values(extract_vowels(arg.name))
             + _sum_letter_values(extract_consonants(arg.name))
           = _sum_letter_values(arg.name)
        /\ \A i \in 1..Len(arg.name) :
              get_letter_value(arg.name[i]) > 0
                  => (is_vowel(arg.name[i]) # is_consonant(arg.name[i]))

\* a name with a vowel, a consonant with a value and a character without one
C9_Witness ==
    /\ pc = "done"
    /\ fn \in NameFunctions
    /\ \E i, j, k \in 1..Len(arg.name) :
          /\ is_vowel(arg.name[i])
          /\ is_consonant(arg.name[j]) /\ get_letter_value(arg.name[j]) > 0
          /\ get_letter_value(arg.name[k]) = 0

\* C10: calculateDestiny, calculateSoulUrge and calculatePersonality give the
\* same number for a name, for its uppercase and for its lowercase form.
C10_CaseInsensitive ==
    (pc = "done" /\ fn \in NameFunctions) =>
        /\ fn = "destiny" =>
            /\ result = calculateDestiny(upper(arg.name))
            /\ result = calculateDestiny(lower(arg.name))
        /\ fn = "soulUrge" =>
            /\ result = calculateSoulUrge(upper(arg.name))
            /\ result = calculateSoulUrge(lower(arg.name))
        /\ fn = "personality" =>
            /\ result = calculatePersonality(upper(arg.name))
            /\ result = calculatePersonality(lower(arg.name))

\* name with the characters at positions i and i + 1 exchanged
SwapAdjacent(name, i) ==
    [k \in 1..Len(name) |->
        IF k = i THEN name[i + 1] ELSE IF k = i + 1 THEN name[i] ELSE name[k]]

\* name without the character at position i
RemoveAt(name, i) == SubSeq(name, 1, i - 1) \o SubSeq(name, i + 1, Len(name))

\* name with character c put after position k
InsertAfter(name, k, c) ==
    SubSeq(name, 1, k) \o <<c>> \o SubSeq(name, k + 1, Len(name))

\* the space, digits and punctuation of ASCII
AsciiNonLetters == Ascii \ (AsciiUpper \cup AsciiLower)

\* space, digit one, hyphen, apostrophe, full stop
Separators == {32, 49, 45, 39, 46}

\* C11: calculateDestiny depends only on the multiset of the letters of the
\* name: exchanging two characters, or inserting or removing a space, a digit
\* or a punctuation character, never changes the number; "JOHN SMITH" and
\* "JOHNSMITH" give the same number.
C11_DestinyOfLetterMultiset ==
    (pc = "done" /\ fn = "destiny") =>
        /\ \A i \in 1..(Len(arg.name) - 1) :
              calculateDestiny(SwapAdjacent(arg.name, i)) = result
        /\ \A i \in 1..Len(arg.name) :
              arg.name[i] \in AsciiNonLetters
                  => calculateDestiny(RemoveAt(arg.name, i)) = result
        /\ \A k \in 0..Len(arg.name), c \in Separators :
              calculateDestiny(InsertAfter(arg.name, k, c)) = result
        /\ (arg.name = JOHN_SMITH => calculateDestiny(JOHNSMITH) = result)

\* the Destiny of "JOHN SMITH" has been returned
C11_Witness ==
    /\ pc = "done"
    /\ fn = "destiny"
    /\ arg.name = JOHN_SMITH
    /\ result = calculateDestiny(JOHNSMITH)

\* C12: a name without vowels gives Soul Urge 9, a name without consonants
\* gives Personality 9 and a name without letters, the empty name included,
\* gives Destiny 9.
C12_EmptySumsGiveNine ==
    pc = "done" =>
        /\ (fn = "soulUrge" /\ \A i \in 1..Len(arg.name) : ~is_vowel(arg.name[i]))
              => result = 9
        /\ (fn = "personality"
              /\ \A i \in 1..Len(arg.name) : ~is_consonant(arg.name[i]))
              => result = 9
        /\ (fn = "destiny" /\ \A i \in 1..Len(arg.name) : ~isalpha(arg.name[i]))
              => result = 9

\* the Soul Urge of a name of consonants only has been returned
C12_Witness ==
    /\ pc = "done"
    /\ fn = "soulUrge"
    /\ arg.name = BCDFG
    /\ result = 9

(***************************************************************************)
(* The letter classifier.                                                  *)
(***************************************************************************)
\* the forms of a, ă, â with a diacritic, in both cases
FormsOfA == {
    192, 193, 194, 195, 224, 225, 226, 227, 258, 259,
    7840, 7841, 7842, 7843, 7844, 7845, 7846, 7847, 7848, 7849,
    7850, 7851, 7852, 7853, 7854, 7855, 7856, 7857, 7858, 7859,
    7860, 7861, 7862, 7863
}

\* the forms of e, ê with a diacritic, in both cases
FormsOfE == {
    200, 201, 202, 232, 233, 234, 7864, 7865, 7866, 7867,
    7868, 7869, 7870, 7871, 7872, 7873, 7874, 7875, 7876, 7877,
    7878, 7879
}

\* the forms of i with a diacritic, in both cases
FormsOfI == {
    204, 205, 236, 237, 296, 297, 7880, 7881, 7882, 7883
}

\* the forms of o, ô, ơ with a diacritic, in both cases
FormsOfO == {
    210, 211, 212, 213, 242, 243, 244, 245, 416, 417,
    7884, 7885, 7886, 7887, 7888, 7889, 7890, 7891, 7892, 7893,
    7894, 7895, 7896, 7897, 7898, 7899, 7900, 7901, 7902, 7903,
    7904, 7905, 7906, 7907
}

\* the forms of u, ư with a diacritic, in both cases
FormsOfU == {
    217, 218, 249, 250, 360, 361, 431, 432, 7908, 7909,
    7910, 7911, 7912, 7913, 7914, 7915, 7916, 7917, 7918, 7919,
    7920, 7921
}

VowelForms == FormsOfA \cup FormsOfE \cup FormsOfI \cup FormsOfO \cup FormsOfU

\* the Latin base letter of a vowel form, as a capital
BaseOfForm(c) ==
    IF c \in FormsOfA THEN 65
    ELSE IF c \in FormsOfE THEN 69
    ELSE IF c \in FormsOfI THEN 73
    ELSE IF c \in FormsOfO THEN 79
    ELSE 85

\* C13: every form with a diacritic of a, e, i, o, u and of the Vietnamese
\* bases, with or without one of the five tone marks and in either case, is a
\* vowel for is_vowel and has the letter value of its Latin base letter
\* (A=1, E=5, I=9, O=6, U=3).
C13_DiacriticFormsClassifyAsBase ==
    (pc = "done" /\ arg.name # <<>> /\ arg.name[1] \in VowelForms) =>
        /\ fn = "is_vowel" => out.val = TRUE
        /\ fn = "get_letter_value" =>
            /\ result = get_letter_value(BaseOfForm(arg.name[1]))
            /\ (arg.name[1] \in FormsOfA => result = 1)
            /\ (arg.name[1] \in FormsOfE => result = 5)
            /\ (arg.name[1] \in FormsOfI => result = 9)
            /\ (arg.name[1] \in FormsOfO => result = 6)
            /\ (arg.name[1] \in FormsOfU => result = 3)

\* is_vowel has answered for capital A with breve and hook above (U+1EB2)
C13_Witness ==
    /\ pc = "done"
    /\ fn = "is_vowel"
    /\ arg.name = <<7858>>
    /\ out.val = TRUE

\* C14: for each of the 26 Latin letters, in either case, get_letter_value is
\* ((position - 1) mod 9) + 1 with A at position 1 and Z at position 26.
C14_LetterValueFormula ==
    (pc = "done" /\ fn = "get_letter_value") =>
        /\ arg.name[1] \in 65..90
              => result = ((arg.name[1] - 64 - 1) % 9) + 1
        /\ arg.name[1] \in 97..122
              => result = ((arg.name[1] - 96 - 1) % 9) + 1

\* get_letter_value has answered 8 for the small letter z
C14_Witness ==
    /\ pc = "done"
    /\ fn = "get_letter_value"
    /\ arg.name = <<122>>
    /\ result = 8

\* C15: no character is both a vowel and a consonant; a character that is not
\* alphabetic is neither, has letter value 0 and adds nothing to the sums of
\* Destiny, Soul Urge and Personality.
C15_ClassesDisjointNonLettersExcluded ==
    /\ (pc = "done" /\ fn = "is_vowel" /\ out.val)
          => ~is_consonant(arg.name[1])
    /\ (pc = "done" /\ fn = "is_consonant" /\ out.val)
          => ~is_vowel(arg.name[1])
    /\ (pc = "done" /\ fn \in {"is_vowel", "is_consonant", "get_letter_value"}
          /\ (arg.name[1] \in AsciiNonLetters \/ ~isalpha(arg.name[1])))
          => /\ fn = "is_vowel" => out.val = FALSE
             /\ fn = "is_consonant" => out.val = FALSE
             /\ fn = "get_letter_value" => result = 0
    /\ (pc \in {"loop", "done"} /\ fn \in NameFunctions) =>
          \A i \in 1..Len(arg.name) :
              (arg.name[i] \in AsciiNonLetters \/ ~isalpha(arg.name[i])) =>
                  /\ DestinyTotal(RemoveAt(arg.name, i))
                        = DestinyTotal(arg.name)
                  /\ SoulUrgeTotal(RemoveAt(arg.name, i))
                        = SoulUrgeTotal(arg.name)
                  /\ PersonalityTotal(RemoveAt(arg.name, i))
                        = PersonalityTotal(arg.name)

\* is_consonant has answered no for a digit
C15_Witness ==
    /\ pc = "done"
    /\ fn = "is_consonant"
    /\ arg.name = <<49>>
    /\ out.val = FALSE

(***************************************************************************)
(* Birth dates given as strings.                                           *)
(***************************************************************************)
\* text is YYYY-MM-DD and names a day of the calendar
IsExtendedIsoDate(text) ==
    /\ Len(text) = 10
    /\ text[5] = 45 /\ text[8] = 45
    /\ \A i \in {1, 2, 3, 4, 6, 7, 9, 10} : text[i] \in 48..57
    /\ LET y == IntOfDigits(SubSeq(text, 1, 4))
           m == IntOfDigits(SubSeq(text, 6, 7))
           d == IntOfDigits(SubSeq(text, 9, 10))
       IN  /\ y \in 1..9999
           /\ m \in 1..12
           /\ d \in 1..DaysInMonth(y, m)

\* the date an extended ISO string names
DateOfExtended(text) ==
    [year |-> IntOfDigits(SubSeq(text, 1, 4)),
     month |-> IntOfDigits(SubSeq(text, 6, 7)),
     day |-> IntOfDigits(SubSeq(text, 9, 10))]

\* text is YYYYMMDD and names a day of the calendar
IsBasicIsoDate(text) ==
    /\ Len(text) = 8
    /\ \A i \in 1..8 : text[i] \in 48..57
    /\ LET y == IntOfDigits(SubSeq(text, 1, 4))
           m == IntOfDigits(SubSeq(text, 5, 6))
           d == IntOfDigits(SubSeq(text, 7, 8))
       IN  /\ y \in 1..9999
           /\ m \in 1..12
           /\ d \in 1..DaysInMonth(y, m)

\* text has the letter W of an ISO week date
IsWeekForm(text) == \E i \in 1..Len(text) : text[i] = 87

\* text names a calendar date in one of the ISO 8601 forms; every week form
\* counts, so that the claims below say nothing about them
IsCalendarDateString(text) ==
    IsExtendedIsoDate(text) \/ IsBasicIsoDate(text) \/ IsWeekForm(text)

\* C16: calculateLifePath returns for the string YYYY-MM-DD the number it
\* returns for the date, and fails with ValueError, returning no number, for
\* every string that is not a calendar date.
C16_LifePathOfString ==
    (fn = "lifePath" /\ arg.isStr /\ pc \in {"loop", "done", "raised"}) =>
        /\ IsExtendedIsoDate(arg.text) =>
              /\ pc # "raised"
              /\ pc = "done"
                    => result = calculateLifePath(DateOfExtended(arg.text))
        /\ ~IsCalendarDateString(arg.text) =>
              /\ pc = "raised"
              /\ error = "ValueError"
              /\ result = 0

(***************************************************************************)
(* Interpretation lookup.                                                  *)
(***************************************************************************)
Categories == {"life_path", "destiny", "soul_urge", "personality"}

\* C17: getInterpretation fails, returning no text, exactly when the category
\* is not one of the four, the value is not in the table of the category or
\* the locale is not 'vi'; a call with one of these faults alone is answered
\* by the error of that fault, and the three errors differ.
C17_LookupFailures ==
    (fn = "getInterpretation" /\ pc \in {"done", "raised"}) =>
        LET badCategory == arg.category \notin Categories
            badValue == arg.num \notin {1, 2, 3, 4, 5, 6, 7, 8, 9, 11, 22, 33}
            badLocale == arg.language # "vi"
        IN  /\ (pc = "raised") <=> (badCategory \/ badValue \/ badLocale)
            /\ pc = "raised" =>
                /\ out = NoOut
                /\ error \in {"ValueError: Unknown number type",
                              "ValueError: Unknown value",
                              "ValueError: Language not supported"}
                /\ (badCategory /\ ~badLocale)
                      => error = "ValueError: Unknown number type"
                /\ (badValue /\ ~badCategory /\ ~badLocale)
                      => error = "ValueError: Unknown value"
                /\ (badLocale /\ ~badCategory /\ ~badValue)
                      => error = "ValueError: Language not supported"

\* a known entry asked for in English has been refused
C17_Witness ==
    /\ pc = "raised"
    /\ fn = "getInterpretation"
    /\ arg.category = "destiny" /\ arg.num = 22 /\ arg.language = "en"
    /\ error = "ValueError: Language not supported"
    /\ out = NoOut

\* the key prefix under which calculate_profile files each category
KeyPrefix(category) ==
    CASE category = "life_path" -> "lifePathNumber"
      [] category = "destiny" -> "destinyNumber"
      [] category = "soul_urge" -> "soulUrgeNumber"
      [] category = "personality" -> "personalityNumber"

\* the number of the profile for a category
ProfileNumber(profile, category) ==
    CASE category = "life_path" -> profile.life_path_number
      [] category = "destiny" -> profile.destiny_number
      [] category = "soul_urge" -> profile.soul_urge_number
      [] category = "personality" -> profile.personality_number

\* C18: getInterpretation succeeds with a non-empty text for each of the four
\* categories, each value of {1..9, 11, 22, 33} and the locale 'vi'; and
\* calculate_profile always returns exactly four interpretations, one per
\* category, each the non-empty text of the number computed for the category.
C18_EveryNumberHasInterpretation ==
    /\ (/\ fn = "getInterpretation" /\ pc \in {"done", "raised"}
        /\ arg.category \in Categories
        /\ arg.num \in NumerologyNumbers
        /\ arg.language = "vi")
          => /\ pc = "done"
             /\ out.kind = "text"
             /\ out.val.len > 0
             /\ out.val.numberType = arg.category
             /\ out.val.value = arg.num
    /\ (fn = "calculate_profile" /\ pc \in {"done", "raised"})
          => /\ pc = "done"
             /\ Cardinality(out.interpretations) = 4
             /\ \A category \in Categories :
                   LET key == <<KeyPrefix(category), ProfileNumber(out, category)>>
                   IN  \E item \in out.interpretations :
                           /\ item[1] = key
                           /\ item[2].len > 0
                           /\ item[2].numberType = category
                           /\ item[2].value = ProfileNumber(out, category)

\* a profile whose Life Path and Destiny are the same number has four
\* interpretations
C18_Witness ==
    /\ pc = "done"
    /\ fn = "calculate_profile"
    /\ out.life_path_number = out.destiny_number
    /\ Cardinality(out.interpretations) = 4

\* INTERPRETATIONS without the entry of one category and value
TableWithout(category, value) ==
    [c \in DOMAIN INTERPRETATIONS |->
        IF c = category
        THEN [v \in (DOMAIN INTERPRETATIONS[c]) \ {value} |-> INTERPRETATIONS[c][v]]
        ELSE INTERPRETATIONS[c]]

C20_ValidateBirthDate ==
    (/\ fn = "validate_birth_date" /\ pc \in {"done", "raised"}
     /\ ~IsWeekForm(arg.text)) =>
        LET isDate == IsExtendedIsoDate(arg.text) \/ IsBasicIsoDate(arg.text)
            d == IF IsExtendedIsoDate(arg.text)
                 THEN DateOfExtended(arg.text)
                 ELSE [year |-> IntOfDigits(SubSeq(arg.text, 1, 4)),
                       month |-> IntOfDigits(SubSeq(arg.text, 5, 6)),
                       day |-> IntOfDigits(SubSeq(arg.text, 7, 8))]
            future == isDate /\ DateAfter(d, arg.today)
            tooOld == isDate /\ d.year < 1900
        IN  /\ (pc = "done") <=> (isDate /\ ~future /\ ~tooOld)
            /\ pc = "done" => out = [kind |-> "date", val |-> d]
            /\ pc = "raised" =>
                /\ out = NoOut
                /\ ~isDate => error = "INVALID_DATE_FORMAT"
                /\ future => error = "BIRTH_DATE_FUTURE"
                /\ (tooOld /\ ~future) => error = "BIRTH_DATE_TOO_OLD"

(***************************************************************************)
(* Names given to the service.                                             *)
(***************************************************************************)
\* the positions of a name that hold no whitespace
InkPositions(name) ==
    {i \in 1..Len(name) :
        name[i] \notin {9, 10, 11, 12, 13, 28, 29, 30, 31, 32, 133, 160}}

Least(S) == CHOOSE x \in S : \A y \in S : x <= y

Greatest(S) == CHOOSE x \in S : \A y \in S : x >= y

\* the name without the whitespace around it
Trimmed(name) ==
    IF InkPositions(name) = {} THEN <<>>
    ELSE SubSeq(name, Least(InkPositions(name)), Greatest(InkPositions(name)))

\* C21: validate_name fails with EMPTY_NAME when the name is empty after
\* trimming; for any other name it fails with NAME_TOO_LONG when the name as
\* given has more than 100 characters and otherwise returns the name without
\* the whitespace around it; a returned name is not empty and has at most 100
\* characters.
C21_ValidateName ==
    (fn = "validate_name" /\ pc \in {"done", "raised"}) =>
        /\ Trimmed(arg.name) = <<>>
              => (pc = "raised" /\ error = "EMPTY_NAME")
        /\ (Trimmed(arg.name) # <<>> /\ Len(arg.name) > 100)
              => (pc = "raised" /\ error = "NAME_TOO_LONG")
        /\ (Trimmed(arg.name) # <<>> /\ Len(arg.name) <= 100)
              => (pc = "done" /\ out = [kind |-> "name", val |-> Trimmed(arg.name)])
        /\ pc = "raised" => out = NoOut
        /\ pc = "done" => (out.val # <<>> /\ Len(out.val) <= 100)

\* a name of 100 characters that begins and ends with whitespace has been
\* returned trimmed
C21_Witness ==
    /\ pc = "done"
    /\ fn = "validate_name"
    /\ Len(arg.name) = 100
    /\ arg.name[1] = 32
    /\ arg.name[100] = 9
    /\ Len(out.val) < 100

(***************************************************************************)
(* Letters outside A-Z, the vowel table, and the personal cycles.          *)
(***************************************************************************)
\* C27: for every single character get_letter_value is 0 exactly when the
\* character is neither a vowel nor a consonant; a character classified as
\* vowel or consonant has a letter value in 1..9.
C27_ValueZeroIffOther ==
    (pc = "done" /\ fn = "get_letter_value") =>
        LET letter == arg.name[1]
            other == ~is_vowel(letter) /\ ~is_consonant(letter)
        IN  /\ (result = 0) <=> other
            /\ ~other => result \in 1..9

\* C28: every character of the VIETNAMESE_VOWELS table is a vowel for
\* is_vowel, the forms of y with a tone mark included, and is therefore kept
\* by extract_vowels and dropped by extract_consonants.
C28_TableVowelsAreVowels ==
    /\ (pc = "done" /\ fn = "is_vowel" /\ arg.name[1] \in VIETNAMESE_VOWELS)
          => out.val = TRUE
    /\ (pc = "done" /\ fn = "is_consonant" /\ arg.name[1] \in VIETNAMESE_VOWELS)
          => out.val = FALSE
    /\ (pc = "done" /\ fn \in {"soulUrge", "personality"}) =>
          \A i \in 1..Len(arg.name) :
              arg.name[i] \in VIETNAMESE_VOWELS =>
                  /\ \E j \in 1..Len(extract_vowels(arg.name)) :
                        extract_vowels(arg.name)[j] = arg.name[i]
                  /\ \A j \in 1..Len(extract_consonants(arg.name)) :
                        extract_consonants(arg.name)[j] # arg.name[i]

C24_DuplicateCreateRejected ==
    /\ [](/\ DOMAIN _transports = DOMAIN _pipelines
          /\ \A c \in DOMAIN _pipelines : _transports[c] = _pipelines[c]
          /\ \A c, d \in DOMAIN _pipelines :
                 _pipelines[c] = _pipelines[d] => c = d)
    /\ [][\A p \in BotCallers :
            (/\ botCalls[p].pc = "idle"
             /\ botCalls'[p].op = "create_pipeline"
             /\ botCalls'[p].conversation_id \in DOMAIN _pipelines)
            => (/\ botCalls'[p].pc = "raised"
                /\ botCalls'[p].error = "ValueError"
                /\ _pipelines' = _pipelines
                /\ _transports' = _transports)]_vars

\* a create_pipeline call has been rejected for a registered conversation
C24_Witness ==
    \E p \in BotCallers :
        /\ botCalls[p].op = "create_pipeline"
        /\ botCalls[p].pc = "raised"
        /\ botCalls[p].error = "ValueError"
        /\ botCalls[p].conversation_id \in DOMAIN _pipelines
        /\ \E q \in BotCallers \ {p} : botCalls[q].pc = "cancel"

\* C25: the status of a conversation is not_found before any create_pipeline,
\* running or stopped from the step in which create_pipeline returns, and
\* not_found in the state in which destroy_pipeline returns; an entry is
\* added only by create_pipeline and removed only by the last step of a
\* destroy_pipeline; destroy_pipeline for a conversation without a
\* registered pipeline raises ValueError; get_pipeline_status answers
\* not_found exactly for the unregistered conversations.
C25_PipelineLifecycle ==
    /\ [](created = 0 =>
            \A c \in ConversationIds, done \in BOOLEAN :
                get_pipeline_status(_pipelines, c, done).status = "not_found")
    /\ [][/\ \A p \in BotCallers :
              /\ (/\ botCalls[p].pc = "idle"
                  /\ botCalls'[p].op = "create_pipeline"
                  /\ botCalls'[p].pc = "returned")
                 => \A done \in BOOLEAN :
                      /\ get_pipeline_status(_pipelines,
                             botCalls'[p].conversation_id, done).status
                           = "not_found"
                      /\ get_pipeline_status(_pipelines',
                             botCalls'[p].conversation_id, done).status
                           = IF done THEN "stopped" ELSE "running"
              /\ (/\ botCalls[p].op = "destroy_pipeline"
                  /\ botCalls[p].pc = "cancel"
                  /\ botCalls'[p].pc = "returned")
                 => \A done \in BOOLEAN :
                      get_pipeline_status(_pipelines',
                          botCalls[p].conversation_id, done).status
                        = "not_found"
              /\ (/\ botCalls[p].pc = "idle"
                  /\ botCalls'[p].op = "destroy_pipeline"
                  /\ botCalls'[p].conversation_id \notin DOMAIN _pipelines)
                 => (/\ botCalls'[p].pc = "raised"
                     /\ botCalls'[p].error = "ValueError")
              /\ (/\ botCalls[p].pc = "idle"
                  /\ botCalls'[p].op = "get_pipeline_status")
                 => (/\ botCalls'[p].pc = "returned"
                     /\ botCalls'[p].status \in {"not_found", "running", "stopped"}
                     /\ botCalls'[p].status = "not_found"
                          <=> botCalls'[p].conversation_id \notin DOMAIN _pipelines)
          /\ \A c \in ConversationIds :
              /\ (c \notin DOMAIN _pipelines /\ c \in DOMAIN _pipelines')
                 => \E p \in BotCallers :
                      /\ botCalls[p].pc = "idle"
                      /\ botCalls'[p].op = "create_pipeline"
                      /\ botCalls'[p].pc = "returned"
                      /\ botCalls'[p].conversation_id = c
              /\ (c \in DOMAIN _pipelines /\ c \notin DOMAIN _pipelines')
                 => \E p \in BotCallers :
                      /\ botCalls[p].pc = "cancel"
                      /\ botCalls[p].conversation_id = c]_vars

\* destroy_pipeline has returned for a conversation that create_pipeline had
\* registered, and the conversation is unregistered
C25_Witness ==
    \E p \in BotCallers :
        /\ botCalls[p].op = "destroy_pipeline"
        /\ botCalls[p].pc = "returned"
        /\ botCalls[p].task > 0
        /\ botCalls[p].conversation_id \notin DOMAIN _pipelines

\* C26: in the step in which destroy_all_pipelines returns, no conversation
\* that was registered when the call started is still registered.
C26_DestroyAllLeavesNothing ==
    [][\A p \in BotCallers :
          (/\ botCalls'[p].op = "destroy_all_pipelines"
           /\ botCalls[p].pc # "returned"
           /\ botCalls'[p].pc = "returned")
          => \A c \in botCalls'[p].snapshot : NoPipeline(_pipelines', c)]_vars

(***************************************************************************)
(* ConversationService.                                                    *)
(***************************************************************************)
\* C22: once create_conversation_with_daily has raised after its room was
\* created, and delete_room itself did not fail, the room is deleted, the
\* session holds nothing uncommitted and no conversation record of the call
\* is committed.
C22_CreateIsAtomic ==
    (/\ createCall.pc = "raised"
     /\ createCall.room # 0
     /\ createCall.cleanup # "failed")
    => (/\ createCall.room \notin rooms
        /\ ~createCall.flushed
        /\ createCall.conversation_id \notin DOMAIN conversations)

\* C23: no save is lost or overwritten: every message whose request was
\* answered 200 is in the committed message list of its conversation.
C23_NoSaveLost ==
    \A x \in succeeded :
        \E i \in DOMAIN conversations[x.conversation_id] :
            conversations[x.conversation_id][i] = x.message

(***************************************************************************)
(* NumerologyService.create_profile.                                       *)
(***************************************************************************)
\* C29: the table holds at most one numerology profile per user_id.
C29_OneProfilePerUser ==
    \A user_id \in UserIds :
        Cardinality(ProfilesOf(numerology_profiles, user_id)) <= 1
====
